---- MODULE Spec2Model ----
(***************************************************************************)
(* Foundation.js: the doubly-linked List, the HashMap built on it and the  *)
(* BinarySearchTree, as state machines.  Objects live in heaps indexed by  *)
(* address; a reference is Ref(address) and the JavaScript null is Null.   *)
(***************************************************************************)
EXTENDS Integers, Sequences, FiniteSets, TLC

VARIABLES list, listRes, listRef,
          map, mapRes, mapPrev, mapRef, rehashes,
          tree, treeRes,
          graph, graphRes,
          stack, stackRes, stackRef,
          queue, queueRes, queueRef,
          sortIn, sortRes,
          tmap, tmapRes,
          searching

listVars == <<list, listRes, listRef>>
mapVars == <<map, mapRes, mapPrev, mapRef, rehashes>>
treeVars == <<tree, treeRes>>
graphVars == <<graph, graphRes>>
stackVars == <<stack, stackRes, stackRef>>
\* the variables of the structures built on the List
queueVars == <<queue, queueRes, queueRef>>
sortVars == <<sortIn, sortRes>>
tmapVars == <<tmap, tmapRes>>
searchVars == <<searching>>
moreVars == <<stackVars, queueVars, sortVars, tmapVars, searchVars>>
vars == <<list, listRes, listRef, map, mapRes, mapPrev, mapRef, rehashes, tree, treeRes,
          graph, graphRes, stack, stackRes, stackRef, queue, queueRes, queueRef,
          sortIn, sortRes, tmap, tmapRes, searching>>

(* ------------------------------ bounds --------------------------------- *)

\* longest list the List actions build
MaxLen == 3
\* the list holds the numbers 1..MaxData
MaxData == 2
\* the map that is only filled is constructed with a capacity in 1..MaxCap
MaxCap == 4
\* the map of the add and delete actions with a capacity in 1..MapCap
MapCap == 3
\* the map actions use the first MapKeys keys
MapKeys == 3
\* the tree holds the numbers 1..MaxTreeData
MaxTreeData == 3
\* largest count, and largest copies of a node, the tree actions reach
MaxTreeCount == 3
\* the tree actions leave no node with copies below -MaxTreeDebt
MaxTreeDebt == 1
\* the graph actions use the first MaxVertices keys as vertex values
MaxVertices == 2
\* largest number of neighbour entries, over all vertices, the graph actions reach
MaxEdges == 3
\* deepest stack and longest queue the stack and queue actions build
MaxDepth == 3
\* the stack and the queue hold the numbers 1..MaxItem
MaxItem == 3
\* longest collection given to the sorts
MaxSortLen == 4
\* the items of a collection have the keys 1..MaxSortKey
MaxSortKey == 2
\* most items of a stack and of a queue that are used side by side
MaxFacadeDepth == 2
\* vertices and neighbour entries of the graphs whose paths are measured
MaxPathVertices == 4
MaxPathEdges == 3
\* most neighbour entries of a graph that is searched step by step
MaxSearchEdges == 2
\* the numbers 1..MixedKeys are map keys both as numbers and as their strings
MixedKeys == 1

(* ------------------------- JavaScript values --------------------------- *)

Null == [t |-> "null"]
Num(n) == [t |-> "num", n |-> n]
Ref(id) == [t |-> "ref", id |-> id]
\* a string is the sequence of its code points
Str(s) == [t |-> "str", s |-> s]
Bool(b) == [t |-> "bool", b |-> b]

\* === : objects are compared by address, everything else by value
StrictEquals(a, b) == IF a.t = "obj" /\ b.t = "obj" THEN a.addr = b.addr ELSE a = b

\* ToNumber, as applied by < and >= : null converts to 0
ToNumber(v) == IF v.t = "num" THEN v.n ELSE 0

\* the smallest address not in use in a heap
Alloc(heap) == CHOOSE i \in 1..(Cardinality(DOMAIN heap) + 1) :
                 /\ i \notin DOMAIN heap
                 /\ \A j \in 1..(i - 1) : j \in DOMAIN heap

(* ------------------------------- List ---------------------------------- *)

Node(data) == [data |-> data, previous |-> Null, next |-> Null]

List_new == [first |-> Null, last |-> Null, count |-> 0, nodes |-> <<>>]

\* the result of a call: the object after it, what it returned, what it threw
Returned(self, ret) == [self |-> self, ret |-> ret, err |-> "none"]
Threw(self, err) == [self |-> self, ret |-> Null, err |-> err]

\* the arguments find passes to its predicate: a node and its position
FindArgs(l) == {Ref(i) : i \in DOMAIN l.nodes} \X (0..Cardinality(DOMAIN l.nodes))

\* predicate is the callback, a function of <<node, index>>
List_find(l, predicate) ==
  LET RECURSIVE loop(_, _)
      loop(current, index) ==
        IF current = Null THEN Null
        ELSE LET result == predicate[current, index]
             IN  IF result # Null THEN result
                 ELSE loop(l.nodes[current.id].next, index + 1)
  IN  loop(l.first, 0)

\* as List_nodeAtIndex, but index = count passes the bounds test
List_nodeAtIndex_admitsCount(l, index) ==
  IF ToNumber(index) < 0 \/ ToNumber(index) > l.count
  THEN Threw(l, "OutOfBoundsError")
  ELSE Returned(l, List_find(l, [a \in FindArgs(l) |->
                                  IF StrictEquals(Num(a[2]), index) THEN a[1] ELSE Null]))

List_nodeAtIndex(l, index) ==
  IF ToNumber(index) < 0 \/ ToNumber(index) >= l.count
  THEN Threw(l, "OutOfBoundsError")
  ELSE Returned(l, List_find(l, [a \in FindArgs(l) |->
                                  IF StrictEquals(Num(a[2]), index) THEN a[1] ELSE Null]))

List_itemAtIndex(l, index) ==
  LET found == List_nodeAtIndex(l, index)
  IN  IF found.err # "none" THEN found
      ELSE IF found.ret = Null THEN Threw(l, "TypeError")
      ELSE Returned(l, l.nodes[found.ret.id].data)

List_indexOf(l, value) ==
  List_find(l, [a \in FindArgs(l) |->
                 IF StrictEquals(l.nodes[a[1].id].data, value) THEN Num(a[2]) ELSE Null])

List_addAtStart(l, data) ==
  LET id == Alloc(l.nodes)
      firstItem == l.first
      n1 == l.nodes @@ (id :> [Node(data) EXCEPT !.next = firstItem])
  IN  IF firstItem # Null
      THEN Returned([l EXCEPT !.nodes = [n1 EXCEPT ![firstItem.id].previous = Ref(id)],
                              !.first = Ref(id),
                              !.count = @ + 1], Ref(id))
      ELSE Returned([l EXCEPT !.nodes = n1,
                              !.last = Ref(id),
                              !.first = Ref(id),
                              !.count = @ + 1], Ref(id))

List_addAtLast(l, data) ==
  LET id == Alloc(l.nodes)
  IN  IF l.first # Null
      THEN IF l.last = Null THEN Threw(l, "TypeError")
           ELSE LET n1 == l.nodes @@ (id :> [Node(data) EXCEPT !.previous = l.last])
                IN  Returned([l EXCEPT !.nodes = [n1 EXCEPT ![l.last.id].next = Ref(id)],
                                       !.last = Ref(id),
                                       !.count = @ + 1], Ref(id))
      ELSE Returned([l EXCEPT !.nodes = l.nodes @@ (id :> Node(data)),
                              !.first = Ref(id),
                              !.last = Ref(id),
                              !.count = @ + 1], Ref(id))

\* as List_addBefore, but the node before nodeAtIndex still points at it
List_addBefore_noForwardLink(l, data, nodeAtIndex) ==
  LET id == Alloc(l.nodes)
      prev == l.nodes[nodeAtIndex.id].previous
      n1 == l.nodes @@ (id :> [Node(data) EXCEPT !.previous = prev,
                                                 !.next = nodeAtIndex])
  IN  IF prev = Null THEN Threw(l, "TypeError")
      ELSE Returned([l EXCEPT !.nodes = [n1 EXCEPT ![nodeAtIndex.id].previous = Ref(id)],
                              !.count = @ + 1], Ref(id))

\* add, lines 120-129: link a new node in front of nodeAtIndex
List_addBefore(l, data, nodeAtIndex) ==
  LET id == Alloc(l.nodes)
      prev == l.nodes[nodeAtIndex.id].previous
      n1 == l.nodes @@ (id :> [Node(data) EXCEPT !.previous = prev,
                                                 !.next = nodeAtIndex])
  IN  IF prev = Null THEN Threw(l, "TypeError")
      ELSE Returned([l EXCEPT !.nodes = [n1 EXCEPT ![prev.id].next = Ref(id),
                                                   ![nodeAtIndex.id].previous = Ref(id)],
                              !.count = @ + 1], Ref(id))

\* as List_add, but an index beyond count is taken for count
List_add_clampsIndex(l, data, atIndex) ==
  IF StrictEquals(atIndex, Num(0)) THEN List_addAtStart(l, data)
  ELSE IF ToNumber(atIndex) >= l.count THEN List_addAtLast(l, data)
  ELSE LET found == List_nodeAtIndex(l, atIndex)
       IN  IF found.err # "none" THEN found
           ELSE IF found.ret = Null THEN Threw(l, "TypeError")
           ELSE List_addBefore(l, data, found.ret)

List_add(l, data, atIndex) ==
  IF StrictEquals(atIndex, Num(0)) THEN List_addAtStart(l, data)
  ELSE IF StrictEquals(atIndex, Num(l.count)) THEN List_addAtLast(l, data)
  ELSE LET found == List_nodeAtIndex(l, atIndex)
       IN  IF found.err # "none" THEN found
           ELSE IF found.ret = Null THEN Threw(l, "TypeError")
           ELSE List_addBefore(l, data, found.ret)

\* as List_removeFirst, but last keeps the removed node when the list empties
List_removeFirst_keepsLast(l) ==
  LET head == l.first
  IN  IF head # Null
      THEN LET next == l.nodes[head.id].next
           IN  Returned([l EXCEPT !.first = next,
                                  !.nodes = IF next # Null
                                            THEN [@ EXCEPT ![next.id].previous = Null]
                                            ELSE @,
                                  !.count = @ - 1],
                        l.nodes[head.id].data)
      ELSE Returned(l, Null)

List_removeFirst(l) ==
  LET head == l.first
  IN  IF head # Null
      THEN LET next == l.nodes[head.id].next
           IN  Returned([l EXCEPT !.first = next,
                                  !.nodes = IF next # Null
                                            THEN [@ EXCEPT ![next.id].previous = Null]
                                            ELSE @,
                                  !.last = IF next # Null THEN @ ELSE Null,
                                  !.count = @ - 1],
                        l.nodes[head.id].data)
      ELSE Returned(l, Null)

\* as List_removeLast, but the count goes down on an empty list too
List_removeLast_countsDown(l) ==
  LET tail == l.last
  IN  IF tail # Null
      THEN LET prev == l.nodes[tail.id].previous
           IN  Returned([l EXCEPT !.last = prev,
                                  !.nodes = IF prev # Null
                                            THEN [@ EXCEPT ![prev.id].next = Null]
                                            ELSE @,
                                  !.first = IF prev # Null THEN @ ELSE Null,
                                  !.count = @ - 1],
                        l.nodes[tail.id].data)
      ELSE Returned([l EXCEPT !.count = @ - 1], Null)

List_removeLast(l) ==
  LET tail == l.last
  IN  IF tail # Null
      THEN LET prev == l.nodes[tail.id].previous
           IN  Returned([l EXCEPT !.last = prev,
                                  !.nodes = IF prev # Null
                                            THEN [@ EXCEPT ![prev.id].next = Null]
                                            ELSE @,
                                  !.first = IF prev # Null THEN @ ELSE Null,
                                  !.count = @ - 1],
                        l.nodes[tail.id].data)
      ELSE Returned(l, Null)

\* remove, lines 202-207: unlink nodeAtIndex from its two neighbours
List_unlink(l, nodeAtIndex) ==
  IF nodeAtIndex = Null THEN Threw(l, "TypeError")
  ELSE LET node == l.nodes[nodeAtIndex.id]
       IN  IF node.next = Null THEN Threw(l, "TypeError")
           ELSE LET n1 == [l.nodes EXCEPT ![node.next.id].previous = node.previous]
                IN  IF node.previous = Null
                    THEN Threw([l EXCEPT !.nodes = n1], "TypeError")
                    ELSE Returned([l EXCEPT !.nodes = [n1 EXCEPT ![node.previous.id].next = node.next],
                                            !.count = @ - 1],
                                  node.data)

\* as List_remove, but the index is looked up before the last item is tried
List_remove_looksUpFirst(l, index) ==
  IF StrictEquals(index, Num(0)) THEN List_removeFirst(l)
  ELSE LET found == List_nodeAtIndex(l, index)
       IN  IF found.err # "none" THEN found
           ELSE IF StrictEquals(index, Num(l.count - 1)) THEN List_removeLast(l)
           ELSE List_unlink(l, found.ret)

List_remove(l, index) ==
  IF StrictEquals(index, Num(0)) THEN List_removeFirst(l)
  ELSE IF StrictEquals(index, Num(l.count - 1)) THEN List_removeLast(l)
  ELSE LET found == List_nodeAtIndex(l, index)
       IN  IF found.err # "none" THEN found
           ELSE List_unlink(l, found.ret)

\* Garbage collection: only the nodes reachable from first and last stay in
\* the heap, so that an address is the name of a live node.
Reachable(l) ==
  LET roots == {p.id : p \in {l.first, l.last} \ {Null}}
      succ(S) == S \cup {l.nodes[i].next.id : i \in {j \in S : l.nodes[j].next # Null}}
                   \cup {l.nodes[i].previous.id : i \in {j \in S : l.nodes[j].previous # Null}}
      RECURSIVE grow(_)
      grow(S) == IF succ(S) = S THEN S ELSE grow(succ(S))
  IN  grow(roots)

Collect(l) == [l EXCEPT !.nodes = [i \in Reachable(l) |-> l.nodes[i]]]

(* ------------------------- HashMap: the hash --------------------------- *)

\* String(key): a string is itself, a number is its decimal digits
RECURSIVE Digits(_)
Digits(n) == IF n < 10 THEN <<48 + n>> ELSE Digits(n \div 10) \o <<48 + (n % 10)>>

String(key) ==
  CASE key.t = "str" -> key.s
    [] key.t = "num" -> Digits(key.n)
    [] key.t = "null" -> <<110, 117, 108, 108>>
    [] OTHER -> <<91, 111, 98, 106, 101, 99, 116, 32, 79, 98, 106, 101, 99, 116, 93>>

\* A 32-bit word is <<high 16 bits, low 16 bits>>, so that no intermediate
\* value leaves the range of the model checker's integers.
RECURSIVE BitXor(_, _)
BitXor(a, b) == IF a = 0 THEN b
                ELSE IF b = 0 THEN a
                ELSE 2 * BitXor(a \div 2, b \div 2) + ((a + b) % 2)

\* two's complement: the word of -w
Negate(w) == LET lo == (65536 - w[2]) % 65536
                 hi == (65536 - w[1] - (IF w[2] = 0 THEN 0 ELSE 1)) % 65536
             IN  <<hi, lo>>

\* hash ^= codePoint: ToInt32(hash) xor the code point
XorStep(w, cp) == <<BitXor(w[1], cp \div 65536), BitXor(w[2], cp % 65536)>>

\* hash *= 16777619 on a 32-bit integer held in a double, then ToInt32 of the
\* product: the exact product m * (2^24 + 403) of the magnitude m <= 2^31 is
\* rounded to the 53-bit significand of a double (to a multiple of 2, 4 or 8
\* when it is at least 2^53, 2^54 or 2^55, ties to the even multiple) and
\* then reduced modulo 2^32 with the sign of the operand.

\* the magnitude of the 32-bit integer held in the word w
Magnitude(w) == IF w[1] >= 32768 THEN Negate(w) ELSE w

\* the magnitude m is at least t
AtLeast(m, t) == m[1] > t \div 65536 \/ (m[1] = t \div 65536 /\ m[2] >= t % 65536)

\* the spacing of doubles at the product of m: 2147432066, 1073716033 and
\* 536858017 are the least magnitudes whose product reaches 2^55, 2^54, 2^53
Unit(m) == IF AtLeast(m, 2147432066) THEN 8
           ELSE IF AtLeast(m, 1073716033) THEN 4
           ELSE IF AtLeast(m, 536858017) THEN 2
           ELSE 1

\* rounding to the nearest multiple of unit, ties to the even multiple: what
\* is added to a number that is r above a multiple of unit
RoundDelta(r, unit, odd) == IF 2 * r < unit THEN 0 - r
                            ELSE IF 2 * r > unit THEN unit - r
                            ELSE IF odd THEN r ELSE 0 - r

\* the low 32 bits of the product, from its bits 16..31 and the rounded bits 0..15
Carry(phi, lo) == <<(phi + lo \div 65536) % 65536, lo % 65536>>

Rounded(plo, phi, unit) ==
  Carry(phi, plo + RoundDelta(plo % unit, unit, (plo \div unit) % 2 = 1))

\* m * (2^24 + 403) modulo 2^32, rounded; a is m[2] * 403
Product(m, a) ==
  Rounded(a % 65536, (m[1] * 403 + a \div 65536 + (m[2] % 256) * 256) % 65536, Unit(m))

MulMagnitude(m) == Product(m, m[2] * 403)

Signed(negative, w) == IF negative THEN Negate(w) ELSE w

MulStep(w) == Signed(w[1] >= 32768, MulMagnitude(Magnitude(w)))

\* the FNV-1a loop over the code points of str, from the offset basis
\* 2166136261 = 33052 * 65536 + 40389
RECURSIVE HashLoop(_, _, _)
HashLoop(str, i, w) ==
  IF i > Len(str) THEN w
  ELSE HashLoop(str, i + 1, MulStep(XorStep(w, str[i])))

\* the i-th key of the map actions is the one-letter string "a", "b", ...
KeyOf(i) == Str(<<96 + i>>)

\* the keys in use: the one-letter strings, for every object (they all
\* convert to the same string) the reference Ref(0), and small numbers with
\* the strings of their digits
HashKeys ==
  {KeyOf(i) : i \in 1..26} \cup {Ref(0)}
    \cup {Num(n) : n \in 1..MixedKeys} \cup {Str(Digits(n)) : n \in 1..MixedKeys}

\* the hash of each key in use, computed once
HashTable == [key \in HashKeys |-> HashLoop(String(key), 1, <<33052, 40389>>)]

\* (hash >>> 0) as a word
Hash32(key) == HashTable[IF key.t = "ref" THEN Ref(0) ELSE key]

\* word % length
WordMod(w, length) == ((w[1] % length) * (65536 % length) + w[2]) % length

\* (hash >>> 0) % length
HashIndex(key, length) == WordMod(Hash32(key), length)

(* ------------------------------ HashMap -------------------------------- *)

\* constructor defaults; a threshold is the fraction <<numerator, denominator>>
DefaultCapacity == 19
DefaultRehashThreshold == <<3, 4>>

HashMap_new(capacity, rehashThreshold) ==
  [initialCapacity |-> capacity,
   rehashThreshold |-> rehashThreshold,
   buckets |-> [i \in 0..(capacity - 1) |-> Null],
   keys |-> <<>>,
   size |-> 0,
   collisions |-> 0]

\* this._buckets.length
Length(m) == Cardinality(DOMAIN m.buckets)

HashMap_count(m) == m.size

\* as HashMap_shouldRehash, but true already when the threshold is reached
HashMap_shouldRehash_atThreshold(m) ==
  m.size * m.rehashThreshold[2] >= m.rehashThreshold[1] * Length(m)

\* occupancyFactor > rehashThreshold, i.e. size / length > numerator / denominator
HashMap_shouldRehash(m) ==
  m.size * m.rehashThreshold[2] > m.rehashThreshold[1] * Length(m)

HashMap_hash(m, key) == HashIndex(key, Length(m))

HashMap_getBucketFor(m, key) == m.buckets[HashMap_hash(m, key)]

\* as HashMap_getNodeFor, but keys are compared by their strings
HashMap_getNodeFor_comparesStrings(m, key) ==
  LET bucket == HashMap_getBucketFor(m, key)
  IN  IF bucket = Null THEN Null
      ELSE List_find(bucket, [a \in FindArgs(bucket) |->
                               IF String(key) = String(bucket.nodes[a[1].id].data.key)
                               THEN a[1] ELSE Null])

HashMap_getNodeFor(m, key) ==
  LET bucket == HashMap_getBucketFor(m, key)
  IN  IF bucket = Null THEN Null
      ELSE List_find(bucket, [a \in FindArgs(bucket) |->
                               IF StrictEquals(key, bucket.nodes[a[1].id].data.key)
                               THEN a[1] ELSE Null])

HashMap_get(m, key) ==
  LET node == HashMap_getNodeFor(m, key)
  IN  IF node # Null THEN HashMap_getBucketFor(m, key).nodes[node.id].data.value
      ELSE Null

\* get keys()
HashMap_keys(m) == m.keys

\* Array.from(values()): get(key) for each key of _keys, in that order
HashMap_values(m) == [i \in 1..Len(m.keys) |-> HashMap_get(m, m.keys[i])]

\* this._keys.includes(key)
HashMap_has(m, key) == \E i \in 1..Len(m.keys) : m.keys[i] = key

\* the object literal { key, value }, allocated at addr
Entry(addr, key, value) == [t |-> "obj", addr |-> addr, key |-> key, value |-> value]

\* entry.data.value = value, for the node id of bucket index
SetValue(m, index, id, value) ==
  [m EXCEPT !.buckets[index].nodes[id].data.value = value]

\* as HashMap_put, but an existing key keeps its old value
HashMap_put_keepsOldValue(m, key, value) ==
  LET index == HashMap_hash(m, key)
      bucket == IF m.buckets[index] = Null THEN List_new ELSE m.buckets[index]
      m1 == [m EXCEPT !.buckets[index] = bucket]
      entry == HashMap_getNodeFor(m1, key)
  IN  IF entry = Null
      THEN LET added == List_add(bucket, Entry(<<index, Alloc(bucket.nodes)>>, key, value),
                                 Num(bucket.count))
           IN  [m1 EXCEPT !.buckets[index] = added.self,
                          !.keys = Append(@, key),
                          !.size = @ + 1,
                          !.collisions = IF added.self.count > 1 THEN @ + 1 ELSE @]
      ELSE m1

\* as HashMap_put, but the key is pushed onto keys on every call
HashMap_put_alwaysPushesKey(m, key, value) ==
  LET index == HashMap_hash(m, key)
      bucket == IF m.buckets[index] = Null THEN List_new ELSE m.buckets[index]
      m1 == [m EXCEPT !.buckets[index] = bucket]
      entry == HashMap_getNodeFor(m1, key)
  IN  IF entry = Null
      THEN LET added == List_add(bucket, Entry(<<index, Alloc(bucket.nodes)>>, key, value),
                                 Num(bucket.count))
           IN  [m1 EXCEPT !.buckets[index] = added.self,
                          !.keys = Append(@, key),
                          !.size = @ + 1,
                          !.collisions = IF added.self.count > 1 THEN @ + 1 ELSE @]
      ELSE [SetValue(m1, index, entry.id, value) EXCEPT !.keys = Append(@, key)]

\* add, lines 198-213 and 219-221: everything but the rehash
HashMap_put(m, key, value) ==
  LET index == HashMap_hash(m, key)
      bucket == IF m.buckets[index] = Null THEN List_new ELSE m.buckets[index]
      m1 == [m EXCEPT !.buckets[index] = bucket]
      entry == HashMap_getNodeFor(m1, key)
  IN  IF entry = Null
      THEN LET added == List_add(bucket, Entry(<<index, Alloc(bucket.nodes)>>, key, value),
                                 Num(bucket.count))
           IN  [m1 EXCEPT !.buckets[index] = added.self,
                          !.keys = Append(@, key),
                          !.size = @ + 1,
                          !.collisions = IF added.self.count > 1 THEN @ + 1 ELSE @]
      ELSE SetValue(m1, index, entry.id, value)

Max(a, b) == IF a > b THEN a ELSE b

RECURSIVE HashMap_add(_, _, _)

\* as HashMap_rehash, but the loop over the keys misses the first one
HashMap_rehash_skipsFirstKey(m) ==
  LET newCapacity == Max(m.size, Length(m)) * 2
      RECURSIVE fill(_, _)
      fill(newMap, i) ==
        IF i > Len(m.keys) THEN newMap
        ELSE fill(HashMap_add(newMap, m.keys[i], HashMap_get(m, m.keys[i])), i + 1)
      newMap == fill(HashMap_new(newCapacity, DefaultRehashThreshold), 2)
  IN  [initialCapacity |-> newMap.initialCapacity,
       rehashThreshold |-> newMap.rehashThreshold,
       buckets |-> newMap.buckets,
       keys |-> newMap.keys,
       size |-> newMap.size,
       collisions |-> newMap.collisions]

\* as HashMap_rehash, but the loop over the keys runs from the last to the first
HashMap_rehash_newestFirst(m) ==
  LET newCapacity == Max(m.size, Length(m)) * 2
      RECURSIVE fill(_, _)
      fill(newMap, i) ==
        IF i < 1 THEN newMap
        ELSE fill(HashMap_add(newMap, m.keys[i], HashMap_get(m, m.keys[i])), i - 1)
      newMap == fill(HashMap_new(newCapacity, DefaultRehashThreshold), Len(m.keys))
  IN  [initialCapacity |-> newMap.initialCapacity,
       rehashThreshold |-> newMap.rehashThreshold,
       buckets |-> newMap.buckets,
       keys |-> newMap.keys,
       size |-> newMap.size,
       collisions |-> newMap.collisions]

HashMap_rehash(m) ==
  LET newCapacity == Max(m.size, Length(m)) * 2
      RECURSIVE fill(_, _)
      fill(newMap, i) ==
        IF i > Len(m.keys) THEN newMap
        ELSE fill(HashMap_add(newMap, m.keys[i], HashMap_get(m, m.keys[i])), i + 1)
      newMap == fill(HashMap_new(newCapacity, DefaultRehashThreshold), 1)
  IN  [initialCapacity |-> newMap.initialCapacity,
       rehashThreshold |-> newMap.rehashThreshold,
       buckets |-> newMap.buckets,
       keys |-> newMap.keys,
       size |-> newMap.size,
       collisions |-> newMap.collisions]

\* add never throws; the result is the map after it (add returns this)
HashMap_add(m, key, value) ==
  LET isNew == HashMap_getNodeFor(m, key) = Null
      put == HashMap_put(m, key, value)
  IN  IF isNew /\ HashMap_shouldRehash(put) THEN HashMap_rehash(put) ELSE put

\* JSON.parse(JSON.stringify(node)): a node with a neighbour is part of a
\* cycle (its neighbour points back at it) and stringify throws; otherwise
\* the result is a new node object holding a new data object
JSON_copy(l, node) ==
  LET n == l.nodes[node.id]
  IN  IF n.previous # Null \/ n.next # Null THEN Threw(l, "TypeError")
      ELSE Returned(l, [data |-> [n.data EXCEPT !.addr = <<>>],
                        previous |-> Null, next |-> Null])

HashMap_delete(m, key) ==
  LET node == HashMap_getNodeFor(m, key)
      index == HashMap_hash(m, key)
      bucket == m.buckets[index]
  IN  IF node = Null THEN Returned(m, Null)
      ELSE LET entry == JSON_copy(bucket, node)
           IN  IF entry.err # "none" THEN Threw(m, entry.err)
               ELSE LET indexToRemove == List_indexOf(bucket, entry.ret.data)
                        removed == List_remove(bucket, indexToRemove)
                    IN  IF removed.err # "none"
                        THEN Threw([m EXCEPT !.buckets[index] = Collect(removed.self)],
                                   removed.err)
                        ELSE Returned([m EXCEPT !.buckets[index] = Collect(removed.self),
                                                !.size = @ - 1],
                                      entry.ret)

(* -------------------------- BinarySearchTree --------------------------- *)

\* new BinaryTreeNode(data); copies is metadata.copies
BinaryTreeNode(data) ==
  [data |-> data, left |-> Null, right |-> Null, parentSide |-> Null, copies |-> 1]

BinarySearchTree_new == [root |-> Null, count |-> 0, nodes |-> <<>>]

\* the string "left"
Left == Str(<<108, 101, 102, 116>>)

\* node.isLeftChild: _parentSide === "left"
isLeftChild(node) == node.parentSide = Left

\* data < node.data
Less(a, b) == ToNumber(a) < ToNumber(b)

\* A recursion on a tree without a cycle is never deeper than this; a deeper
\* one never ends and overflows the call stack (RangeError).
Fuel(t) == Cardinality(DOMAIN t.nodes) + 2

RECURSIVE BST_findNode(_, _, _, _, _)
\* findNode(data, node, parent)
BST_findNode(t, data, node, parent, fuel) ==
  IF fuel = 0 THEN Threw(t, "RangeError")
  ELSE IF node = Null \/ t.nodes[node.id].data = data
  THEN Returned(t, [node |-> node, parent |-> parent])
  ELSE IF Less(data, t.nodes[node.id].data)
  THEN BST_findNode(t, data, t.nodes[node.id].left, node, fuel - 1)
  ELSE BST_findNode(t, data, t.nodes[node.id].right, node, fuel - 1)

\* findNode(data).node
BST_nodeOf(found) == IF found.err # "none" THEN found ELSE Returned(found.self, found.ret.node)

BST_find(t, data) == BST_nodeOf(BST_findNode(t, data, t.root, Null, Fuel(t)))

\* as BST_addFound, but data that is in the tree is linked again, below the
\* node that holds it
BST_addFound_linksDuplicate(t, data, found, new) ==
  IF found.node # Null
  THEN Returned([t EXCEPT !.nodes[found.node.id].right = Ref(new), !.count = @ + 1], Ref(new))
  ELSE IF Less(data, t.nodes[found.parent.id].data)
  THEN Returned([t EXCEPT !.nodes[found.parent.id].left = Ref(new), !.count = @ + 1], Ref(new))
  ELSE Returned([t EXCEPT !.nodes[found.parent.id].right = Ref(new), !.count = @ + 1], Ref(new))

\* add, lines 86-97: found is what findNode returned and new the address of newNode
BST_addFound(t, data, found, new) ==
  IF found.node # Null
  THEN Returned([t EXCEPT !.nodes[found.node.id].copies = @ + 1, !.count = @ + 1], Ref(new))
  ELSE IF Less(data, t.nodes[found.parent.id].data)
  THEN Returned([t EXCEPT !.nodes[found.parent.id].left = Ref(new), !.count = @ + 1], Ref(new))
  ELSE Returned([t EXCEPT !.nodes[found.parent.id].right = Ref(new), !.count = @ + 1], Ref(new))

\* add, from line 85
BST_addSearch(t, data, search, new) ==
  IF search.err # "none" THEN search ELSE BST_addFound(t, data, search.ret, new)

\* add, from line 79: newNode is in the heap at address new
BST_addNode(t, data, new) ==
  IF t.root = Null
  THEN Returned([t EXCEPT !.root = Ref(new), !.count = @ + 1], Ref(new))
  ELSE BST_addSearch(t, data, BST_findNode(t, data, t.root, Null, Fuel(t)), new)

\* line 77: newNode = new BinaryTreeNode(data)
BST_allocate(t, data, new) == [t EXCEPT !.nodes = @ @@ (new :> BinaryTreeNode(data))]

BST_add(t, data) == BST_addNode(BST_allocate(t, data, Alloc(t.nodes)), data, Alloc(t.nodes))

\* the default of remove's copies parameter, the string "*"
Star == Str(<<42>>)

\* as BST_discount, but a number of copies is taken for "*"
BST_discount_takesAll(t, id, copies) ==
  [t EXCEPT !.count = @ - (t.nodes[id].copies - 1),
            !.nodes[id].copies = 0]

\* remove, lines 157-167: count and the copies of the node at address id
BST_discount(t, id, copies) ==
  IF copies = Star
  THEN [t EXCEPT !.count = @ - (t.nodes[id].copies - 1),
                 !.nodes[id].copies = 0]
  ELSE [t EXCEPT !.count = @ - (IF copies.n >= t.nodes[id].copies
                                THEN t.nodes[id].copies - 1 ELSE copies.n),
                 !.nodes[id].copies = @ - copies.n]

RECURSIVE BST_getLeftmost(_, _, _)
BST_getLeftmost(t, node, fuel) ==
  IF fuel = 0 THEN Threw(t, "RangeError")
  ELSE IF node = Null \/ t.nodes[node.id].left = Null THEN Returned(t, node)
  ELSE BST_getLeftmost(t, t.nodes[node.id].left, fuel - 1)

\* makeSubtreeWithoutParent, lines 215-216
BST_graft(t, parent, leftmost) ==
  IF leftmost.err # "none" THEN leftmost
  ELSE Returned([t EXCEPT !.nodes[leftmost.ret.id].left = t.nodes[parent.id].left],
                t.nodes[parent.id].right)

\* the tree after the call and the heir it returns
BST_makeSubtreeWithoutParent(t, parent) ==
  IF t.nodes[parent.id].right # Null
  THEN BST_graft(t, parent, BST_getLeftmost(t, t.nodes[parent.id].right, Fuel(t)))
  ELSE Returned(t, t.nodes[parent.id].left)

\* remove, lines 176-190: made is what makeSubtreeWithoutParent(node) gave.
\* (Line 180 sets a property "parent" that nothing reads.)
BST_splice(node, parent, made) ==
  IF made.err # "none" THEN made
  ELSE IF node = made.self.root
  THEN Returned([made.self EXCEPT !.root = made.ret, !.count = @ - 1], node)
  ELSE IF isLeftChild(made.self.nodes[node.id])
  THEN Returned([made.self EXCEPT !.nodes[parent.id].left = made.ret, !.count = @ - 1], node)
  ELSE Returned([made.self EXCEPT !.nodes[parent.id].right = made.ret, !.count = @ - 1], node)

\* remove, from line 169
BST_removeNode(t, node, parent) ==
  IF t.nodes[node.id].copies >= 1 THEN Returned(t, node)
  ELSE BST_splice(node, parent, BST_makeSubtreeWithoutParent(t, node))

\* remove, from line 153
BST_removeFound(t, found, copies) ==
  IF found.node = Null THEN Returned(t, Null)
  ELSE BST_removeNode(BST_discount(t, found.node.id, copies), found.node, found.parent)

BST_removeSearch(t, search, copies) ==
  IF search.err # "none" THEN search ELSE BST_removeFound(t, search.ret, copies)

BST_remove(t, data, copies) ==
  BST_removeSearch(t, BST_findNode(t, data, t.root, Null, Fuel(t)), copies)

\* the addresses of the nodes of the subtree at node
Subtree(t, node) ==
  LET RECURSIVE grow(_)
      grow(S) ==
        IF \A i \in S : \A c \in {t.nodes[i].left, t.nodes[i].right} : c = Null \/ c.id \in S
        THEN S
        ELSE grow(S \cup {c.id : c \in {d \in UNION {{t.nodes[i].left, t.nodes[i].right} : i \in S} :
                                          d # Null}})
  IN  IF node = Null THEN {} ELSE grow({node.id})

RECURSIVE Visit(_, _, _)
\* the addresses of the nodes that can be reached from the references in
\* pending, in the order in which a walk (node, left, right) first meets them
Visit(t, pending, seen) ==
  IF pending = <<>> THEN seen
  ELSE IF Head(pending) = Null \/ (\E k \in 1..Len(seen) : seen[k] = Head(pending).id)
  THEN Visit(t, Tail(pending), seen)
  ELSE Visit(t, <<t.nodes[Head(pending).id].left, t.nodes[Head(pending).id].right>> \o Tail(pending),
             Append(seen, Head(pending).id))

\* a reference after the node at order[k] has moved to address k; address 0
\* stands for a node that is not in the tree
Moved(order, ref) ==
  IF ref = Null THEN Null
  ELSE IF \E k \in 1..Len(order) : order[k] = ref.id
  THEN Ref(CHOOSE k \in 1..Len(order) : order[k] = ref.id)
  ELSE Ref(0)

\* Garbage collection: the nodes that cannot be reached from the root are
\* dropped and the others are kept at the addresses 1, 2, ... in the order of
\* the walk, so that one tree has one representation.
BST_compact(t, order) ==
  [root |-> Moved(order, t.root),
   count |-> t.count,
   nodes |-> [k \in 1..Len(order) |->
                [t.nodes[order[k]] EXCEPT !.left = Moved(order, @), !.right = Moved(order, @)]]]

BST_collect(t) == BST_compact(t, Visit(t, <<t.root>>, <<>>))

\* some node is its own descendant
Cyclic(t) ==
  \E i \in DOMAIN t.nodes :
    i \in Subtree(t, t.nodes[i].left) \cup Subtree(t, t.nodes[i].right)

RECURSIVE InOrder(_, _)
\* what traverseInOrderly(node) yields on a tree without a cycle
InOrder(t, node) ==
  (IF node # Null /\ t.nodes[node.id].left # Null
   THEN InOrder(t, t.nodes[node.id].left) ELSE <<>>)
  \o <<node>>
  \o (IF node # Null /\ t.nodes[node.id].right # Null
      THEN InOrder(t, t.nodes[node.id].right) ELSE <<>>)

\* traverseInOrderly(), read to its end; on a cycle it has no end
BST_traverseInOrderly(t) ==
  IF Cyclic(t) THEN Threw(t, "RangeError") ELSE Returned(t, InOrder(t, t.root))

(* ------------------------------ TreeMap -------------------------------- *)

\* the key is the data of a tree node and the value is its metadata.value
TreeMap_new == [tree |-> BinarySearchTree_new]

TreeMap_count(m) == m.tree.count

\* node.metadata.value = value
TreeMap_setValue(m, t, node, value) ==
  [m EXCEPT !.tree = [t EXCEPT !.nodes[node.id] =
                        [f \in DOMAIN @ \cup {"value"} |-> IF f = "value" THEN value ELSE @[f]]]]

\* add, line 328: added is what this._tree.add(key) returned
TreeMap_addNew(m, added, value) ==
  IF added.err # "none" THEN Threw([m EXCEPT !.tree = added.self], added.err)
  ELSE Returned(TreeMap_setValue(m, added.self, added.ret, value), Null)

\* add, from line 323: node is what this._tree.find(key) returned
TreeMap_addFound(m, key, value, node) ==
  IF node.err # "none" THEN Threw(m, node.err)
  ELSE IF node.ret # Null THEN Returned(TreeMap_setValue(m, m.tree, node.ret, value), Null)
  ELSE TreeMap_addNew(m, BST_add(m.tree, key), value)

\* add returns this: the result holds the map after the call
TreeMap_add(m, key, value) == TreeMap_addFound(m, key, value, BST_find(m.tree, key))

\* node.metadata.value, undefined when no value was set
TreeMap_valueOf(t, node) ==
  IF "value" \in DOMAIN t.nodes[node.id] THEN t.nodes[node.id].value ELSE Null

\* get, line 345
TreeMap_getFound(m, node) ==
  IF node.err # "none" THEN Threw(m, node.err)
  ELSE IF node.ret # Null THEN Returned(m, TreeMap_valueOf(m.tree, node.ret))
  ELSE Returned(m, Null)

TreeMap_get(m, key) == TreeMap_getFound(m, BST_find(m.tree, key))

\* !!value: null and undefined are false, a string that is not empty is true
Truthy(v) == v # Null /\ v # Str(<<>>) /\ v # Num(0) /\ v # Bool(FALSE)

\* has, line 358: !!this.get(key)
TreeMap_hasGot(got) == IF got.err # "none" THEN got ELSE Returned(got.self, Bool(Truthy(got.ret)))

TreeMap_has(m, key) == TreeMap_hasGot(TreeMap_get(m, key))

\* delete, line 369: removedNode is what this._tree.remove(key) returned
TreeMap_deleteRemoved(m, removedNode) ==
  IF removedNode.err # "none" THEN Threw([m EXCEPT !.tree = removedNode.self], removedNode.err)
  ELSE IF removedNode.ret # Null
  THEN Returned([m EXCEPT !.tree = removedNode.self],
                TreeMap_valueOf(removedNode.self, removedNode.ret))
  ELSE Returned([m EXCEPT !.tree = removedNode.self], Null)

TreeMap_delete(m, key) == TreeMap_deleteRemoved(m, BST_remove(m.tree, key, Star))

(* ------------------------------- Graph --------------------------------- *)

\* new GraphNode(data); the Set _neighbours is the sequence of its elements
\* in insertion order, which is the order in which forEach visits them
GraphNode(data) == [data |-> data, neighbours |-> <<>>]

\* new Graph(directed); heap holds the GraphNode objects by address
Graph_new(directed) ==
  [nodes |-> HashMap_new(DefaultCapacity, DefaultRehashThreshold),
   isDirected |-> directed,
   heap |-> <<>>]

Graph_count(g) == HashMap_count(g.nodes)

\* this._neighbours.has(node)
GraphNode_isNeighbour(n, node) == \E k \in 1..Len(n.neighbours) : n.neighbours[k] = node

RECURSIVE Without(_, _)
\* the elements of a Set after delete(x)
Without(s, x) ==
  IF s = <<>> THEN <<>>
  ELSE IF Head(s) = x THEN Tail(s)
  ELSE <<Head(s)>> \o Without(Tail(s), x)

\* this._neighbours.delete(node)
GraphNode_removeNeighbour(n, node) == [n EXCEPT !.neighbours = Without(@, node)]

\* this._neighbours.add(node)
GraphNode_addNeighbour(n, node) ==
  IF GraphNode_isNeighbour(n, node) THEN n ELSE [n EXCEPT !.neighbours = Append(@, node)]

\* addVertex, lines 54-56: vertex is the address of the new GraphNode
Graph_register(g, data, vertex) ==
  Returned([g EXCEPT !.heap = Append(@, GraphNode(data)),
                     !.nodes = HashMap_add(@, data, vertex)],
           vertex)

Graph_addVertex(g, data) ==
  IF HashMap_has(g.nodes, data) THEN Returned(g, HashMap_get(g.nodes, data))
  ELSE Graph_register(g, data, Ref(Len(g.heap) + 1))

\* Array.from(this._nodes.values())
Graph_values(g) == [i \in 1..Len(g.nodes.keys) |-> HashMap_get(g.nodes, g.nodes.keys[i])]

RECURSIVE Graph_forget(_, _, _, _)
\* removeVertex, line 74: forEach(node => node.removeNeighbour(current)), from
\* the i-th value on
Graph_forget(g, values, i, current) ==
  IF i > Len(values) THEN Returned(g, Null)
  ELSE IF values[i] = Null THEN Threw(g, "TypeError")
  ELSE Graph_forget([g EXCEPT !.heap[values[i].id] = GraphNode_removeNeighbour(@, current)],
                    values, i + 1, current)

\* the graph once this._nodes.delete(data) has returned or thrown
Graph_deleted(g, deleted) ==
  [self |-> [g EXCEPT !.nodes = deleted.self], ret |-> deleted.ret, err |-> deleted.err]

\* removeVertex, line 75
Graph_unregister(forgot, data) ==
  IF forgot.err # "none" THEN forgot
  ELSE Graph_deleted(forgot.self, HashMap_delete(forgot.self.nodes, data))

Graph_removeVertex(g, data) ==
  IF ~HashMap_has(g.nodes, data) THEN Returned(g, Null)
  ELSE Graph_unregister(Graph_forget(g, Graph_values(g), 1, HashMap_get(g.nodes, data)), data)

\* node.addNeighbour(neighbour) for the nodes at these references
Graph_addNeighbour(g, node, neighbour) ==
  [g EXCEPT !.heap[node.id] = GraphNode_addNeighbour(@, neighbour)]

\* as Graph_link, but a directed graph gets the edge back as well
Graph_link_bothWays(g, sourceNode, destNode) ==
  Graph_addNeighbour(Graph_addNeighbour(g, sourceNode, destNode), destNode, sourceNode)

\* addEdge, lines 98-101
Graph_link(g, sourceNode, destNode) ==
  IF ~g.isDirected
  THEN Graph_addNeighbour(Graph_addNeighbour(g, sourceNode, destNode), destNode, sourceNode)
  ELSE Graph_addNeighbour(g, sourceNode, destNode)

\* addEdge, from line 98: added is what addVertex(destination) returned
Graph_addEdgeTo(added, sourceNode) ==
  Returned(Graph_link(added.self, sourceNode, added.ret),
           [source |-> sourceNode, destination |-> added.ret])

\* addEdge, from line 96: added is what addVertex(source) returned
Graph_addEdgeFrom(added, destination) ==
  Graph_addEdgeTo(Graph_addVertex(added.self, destination), added.ret)

Graph_addEdge(g, source, destination) ==
  Graph_addEdgeFrom(Graph_addVertex(g, source), destination)

\* node.removeNeighbour(neighbour) for the nodes at these references
Graph_removeNeighbour(g, node, neighbour) ==
  [g EXCEPT !.heap[node.id] = GraphNode_removeNeighbour(@, neighbour)]

\* as Graph_unlink, but a directed graph loses the edge back as well
Graph_unlink_bothWays(g, sourceNode, destNode) ==
  Graph_removeNeighbour(Graph_removeNeighbour(g, sourceNode, destNode), destNode, sourceNode)

\* removeEdge, lines 127-130
Graph_unlink(g, sourceNode, destNode) ==
  IF ~g.isDirected
  THEN Graph_removeNeighbour(Graph_removeNeighbour(g, sourceNode, destNode),
                             destNode, sourceNode)
  ELSE Graph_removeNeighbour(g, sourceNode, destNode)

\* removeEdge, from line 126
Graph_removeEdgeOf(g, sourceNode, destNode) ==
  IF sourceNode # Null /\ destNode # Null
  THEN Returned(Graph_unlink(g, sourceNode, destNode), Bool(TRUE))
  ELSE Returned(g, Bool(FALSE))

Graph_removeEdge(g, source, destination) ==
  Graph_removeEdgeOf(g, HashMap_get(g.nodes, source), HashMap_get(g.nodes, destination))

\* areNeighbours, from line 148
Graph_isNeighbourOf(g, sourceNode, destNode) ==
  IF sourceNode # Null /\ destNode # Null
  THEN GraphNode_isNeighbour(g.heap[sourceNode.id], destNode)
  ELSE FALSE

Graph_areNeighbours(g, source, destination) ==
  Graph_isNeighbourOf(g, HashMap_get(g.nodes, source), HashMap_get(g.nodes, destination))

\* Stack.push(item) and Queue.enqueue(item): this._items.add(item)
Push(items, item) == List_add(items, item, Num(items.count)).self

\* as Pop, but a queue too hands out its last item
Pop_alwaysLast(items, Type) == List_remove(items, Num(items.count - 1))

\* Stack.pop(): this._items.remove(); Queue.dequeue(): this._items.remove(0)
Pop(items, Type) ==
  IF Type = "Stack" THEN List_remove(items, Num(items.count - 1))
  ELSE List_remove(items, Num(0))

(* ------------------------------- Stack --------------------------------- *)

Stack_new == [items |-> List_new]

Stack_depth(s) == s.items.count

\* push returns this: the result holds the stack after the call
Stack_push(s, item) ==
  LET added == List_add(s.items, item, Num(s.items.count))
  IN  IF added.err # "none" THEN Threw([s EXCEPT !.items = added.self], added.err)
      ELSE Returned([s EXCEPT !.items = added.self], Null)

\* as Stack_pop, but the item is taken from the other end
Stack_pop_takesFirst(s) ==
  LET removed == List_remove(s.items, Num(0))
  IN  [removed EXCEPT !.self = [s EXCEPT !.items = removed.self]]

Stack_pop(s) ==
  LET removed == List_remove(s.items, Num(s.items.count - 1))
  IN  [removed EXCEPT !.self = [s EXCEPT !.items = removed.self]]

Stack_peek(s) ==
  LET found == List_itemAtIndex(s.items, Num(Stack_depth(s) - 1))
  IN  [found EXCEPT !.self = [s EXCEPT !.items = found.self]]

(* ------------------------------- Queue --------------------------------- *)

Queue_new == [items |-> List_new]

Queue_length(q) == q.items.count

\* enqueue returns this: the result holds the queue after the call
Queue_enqueue(q, item) ==
  LET added == List_add(q.items, item, Num(q.items.count))
  IN  IF added.err # "none" THEN Threw([q EXCEPT !.items = added.self], added.err)
      ELSE Returned([q EXCEPT !.items = added.self], Null)

\* as Queue_dequeue, but the item is taken from the back
Queue_dequeue_takesLast(q) ==
  LET removed == List_remove(q.items, Num(q.items.count - 1))
  IN  [removed EXCEPT !.self = [q EXCEPT !.items = removed.self]]

Queue_dequeue(q) ==
  LET removed == List_remove(q.items, Num(0))
  IN  [removed EXCEPT !.self = [q EXCEPT !.items = removed.self]]

(* ------------------ BinarySearchTree searches and traversals ----------- *)

\* what a reader has got from a generator: the values it yielded and how the
\* reading ended: "none" at the end of the sequence, "more" when the reader
\* stopped before the end, or the error that was thrown
Yielded(out, err) == [ret |-> out, err |-> err]

\* the reader takes no more values than this: more than the tree has nodes
ReadLimit(t) == Cardinality(DOMAIN t.nodes) + 2

\* searchDepthFirst, lines 297-302: the right child is pushed, then the left
DepthFirstPush(t, items, node) ==
  IF t.nodes[node.id].right # Null
  THEN (IF t.nodes[node.id].left # Null
        THEN Push(Push(items, t.nodes[node.id].right), t.nodes[node.id].left)
        ELSE Push(items, t.nodes[node.id].right))
  ELSE (IF t.nodes[node.id].left # Null
        THEN Push(items, t.nodes[node.id].left)
        ELSE items)

\* searchBreadthFirst, lines 248-253: the left child is enqueued, then the right
BreadthFirstPush(t, items, node) ==
  IF t.nodes[node.id].left # Null
  THEN (IF t.nodes[node.id].right # Null
        THEN Push(Push(items, t.nodes[node.id].left), t.nodes[node.id].right)
        ELSE Push(items, t.nodes[node.id].left))
  ELSE (IF t.nodes[node.id].right # Null
        THEN Push(items, t.nodes[node.id].right)
        ELSE items)

RECURSIVE DepthFirstLoop(_, _, _, _)
RECURSIVE DepthFirstPopped(_, _, _, _)

\* searchDepthFirst, lines 294-302: popped is what stack.pop() returned; the
\* node is yielded, and reading a child of null throws
DepthFirstPopped(t, popped, out, limit) ==
  IF popped.ret = Null THEN Yielded(Append(out, Null), "TypeError")
  ELSE DepthFirstLoop(t, DepthFirstPush(t, popped.self, popped.ret), Append(out, popped.ret), limit)

\* searchDepthFirst, the loop of line 293
DepthFirstLoop(t, items, out, limit) ==
  IF items.count <= 0 THEN Yielded(out, "none")
  ELSE IF Len(out) >= limit THEN Yielded(out, "more")
  ELSE DepthFirstPopped(t, Pop(items, "Stack"), out, limit)

\* searchDepthFirst(), read up to limit values
BST_searchDepthFirst(t, limit) == DepthFirstLoop(t, Push(List_new, t.root), <<>>, limit)

RECURSIVE BreadthFirstLoop(_, _, _, _)
RECURSIVE BreadthFirstPopped(_, _, _, _)

\* searchBreadthFirst, lines 246-253: popped is what queue.dequeue() returned
BreadthFirstPopped(t, popped, out, limit) ==
  IF popped.ret = Null THEN Yielded(Append(out, Null), "TypeError")
  ELSE BreadthFirstLoop(t, BreadthFirstPush(t, popped.self, popped.ret),
                        Append(out, popped.ret), limit)

\* searchBreadthFirst, the loop of line 245
BreadthFirstLoop(t, items, out, limit) ==
  IF items.count <= 0 THEN Yielded(out, "none")
  ELSE IF Len(out) >= limit THEN Yielded(out, "more")
  ELSE BreadthFirstPopped(t, Pop(items, "Queue"), out, limit)

\* searchBreadthFirst(), read up to limit values
BST_searchBreadthFirst(t, limit) == BreadthFirstLoop(t, Push(List_new, t.root), <<>>, limit)

\* yield* of a generator after the values out: its values follow, and its
\* error is the error of the whole
Then(out, rest) == Yielded(out \o rest.ret, rest.err)

RECURSIVE BST_traversePreOrderly(_, _, _)
RECURSIVE PreOrderRight(_, _, _, _)

\* traversePreOrderly(node), read up to limit values
BST_traversePreOrderly(t, node, limit) ==
  IF limit <= 0 THEN Yielded(<<>>, "more")
  ELSE IF node = Null THEN Yielded(<<Null>>, "TypeError")
  ELSE IF t.nodes[node.id].left # Null
  THEN PreOrderRight(t, node, limit,
                     Then(<<node>>, BST_traversePreOrderly(t, t.nodes[node.id].left, limit - 1)))
  ELSE PreOrderRight(t, node, limit, Yielded(<<node>>, "none"))

\* traversePreOrderly, lines 337-339: got is what was read up to there
PreOrderRight(t, node, limit, got) ==
  IF got.err # "none" \/ t.nodes[node.id].right = Null THEN got
  ELSE Then(got.ret, BST_traversePreOrderly(t, t.nodes[node.id].right, limit - Len(got.ret)))

\* traversePostOrderly, line 359: yield node
PostOrderSelf(node, limit, got) ==
  IF got.err # "none" THEN got
  ELSE IF Len(got.ret) >= limit THEN Yielded(got.ret, "more")
  ELSE Yielded(Append(got.ret, node), "none")

RECURSIVE BST_traversePostOrderly(_, _, _)
RECURSIVE PostOrderRight(_, _, _, _)

\* traversePostOrderly(node), read up to limit values
BST_traversePostOrderly(t, node, limit) ==
  IF node = Null THEN Yielded(<<>>, "TypeError")
  ELSE IF t.nodes[node.id].left # Null
  THEN PostOrderRight(t, node, limit, BST_traversePostOrderly(t, t.nodes[node.id].left, limit))
  ELSE PostOrderRight(t, node, limit, Yielded(<<>>, "none"))

\* traversePostOrderly, lines 356-359: got is what was read up to there
PostOrderRight(t, node, limit, got) ==
  IF got.err # "none" THEN got
  ELSE IF t.nodes[node.id].right # Null
  THEN PostOrderSelf(node, limit,
                     Then(got.ret, BST_traversePostOrderly(t, t.nodes[node.id].right,
                                                           limit - Len(got.ret))))
  ELSE PostOrderSelf(node, limit, got)

RECURSIVE InOrderly(_, _, _)
RECURSIVE InOrderSelf(_, _, _, _)

\* traverseInOrderly(node), read up to limit values
InOrderly(t, node, limit) ==
  IF node # Null /\ t.nodes[node.id].left # Null
  THEN InOrderSelf(t, node, limit, InOrderly(t, t.nodes[node.id].left, limit))
  ELSE InOrderSelf(t, node, limit, Yielded(<<>>, "none"))

\* traverseInOrderly, lines 317-320: got is what was read up to there
InOrderSelf(t, node, limit, got) ==
  IF got.err # "none" THEN got
  ELSE IF Len(got.ret) >= limit THEN Yielded(got.ret, "more")
  ELSE IF node # Null /\ t.nodes[node.id].right # Null
  THEN Then(Append(got.ret, node), InOrderly(t, t.nodes[node.id].right, limit - Len(got.ret) - 1))
  ELSE Yielded(Append(got.ret, node), "none")

RECURSIVE PushAll(_, _, _)
\* Search, line 198: the neighbours are pushed in the order of the Set, from
\* the k-th on
PushAll(items, neighbours, k) ==
  IF k > Len(neighbours) THEN items
  ELSE CHOOSE all \in {PushAll(pushed, neighbours, k + 1) :
                         pushed \in {Push(items, neighbours[k])}} : TRUE

RECURSIVE Graph_SearchLoop(_, _, _, _, _)
RECURSIVE Graph_SearchVisit(_, _, _, _, _)

\* as Graph_SearchVisit, but the first neighbour of a node is not pushed
Graph_SearchVisit_skipsFirstNeighbour(g, visited, popped, Type, out) ==
  IF popped.ret # Null /\ ~HashMap_has(visited, popped.ret)
  THEN Graph_SearchLoop(g, HashMap_add(visited, popped.ret, Null),
                        PushAll(popped.self, g.heap[popped.ret.id].neighbours, 2),
                        Type, Append(out, popped.ret))
  ELSE Graph_SearchLoop(g, visited, popped.self, Type, out)

\* Search, lines 195-199: popped is what pop or dequeue returned and out the
\* nodes yielded so far
Graph_SearchVisit(g, visited, popped, Type, out) ==
  IF popped.ret # Null /\ ~HashMap_has(visited, popped.ret)
  THEN Graph_SearchLoop(g, HashMap_add(visited, popped.ret, Null),
                        PushAll(popped.self, g.heap[popped.ret.id].neighbours, 1),
                        Type, Append(out, popped.ret))
  ELSE Graph_SearchLoop(g, visited, popped.self, Type, out)

\* Search, the loop of line 193
Graph_SearchLoop(g, visited, items, Type, out) ==
  IF items.count > 0 THEN Graph_SearchVisit(g, visited, Pop(items, Type), Type, out)
  ELSE out

\* Graph.Search(first, Type), read to its end: the nodes it yields
Graph_Search(g, first, Type) ==
  Graph_SearchLoop(g, HashMap_new(DefaultCapacity, DefaultRehashThreshold),
                   Push(List_new, first), Type, <<>>)

Graph_searchDepthFirst(g, startValue) ==
  Graph_Search(g, HashMap_get(g.nodes, startValue), "Stack")

Graph_searchBreadthFirst(g, startValue) ==
  Graph_Search(g, HashMap_get(g.nodes, startValue), "Queue")

(* ------------------------------ sorting -------------------------------- *)

\* array[i] for a sequence as a JavaScript array: indexes from 0, and
\* undefined outside 0..length - 1
Undefined == [t |-> "undefined"]
Item(array, i) == IF i >= 0 /\ i < Len(array) THEN array[i + 1] ELSE Undefined

\* a > b, a < b and a <= b on items that are compared through their key; a
\* comparison with undefined is false
GreaterThan(a, b) == a # Undefined /\ b # Undefined /\ a.key > b.key
LessThan(a, b) == a # Undefined /\ b # Undefined /\ a.key < b.key
LessOrEqual(a, b) == a # Undefined /\ b # Undefined /\ a.key <= b.key

\* Array.from(collection): a new array of the same items
Array_from(collection) == [i \in 1..Len(collection) |-> collection[i]]

\* swap(array, from, to)
swap(array, from, to) ==
  [array EXCEPT ![from + 1] = array[to + 1], ![to + 1] = array[from + 1]]

\* the result of a sort: the collection it was given, as it is after the
\* call, and the array it returned
Sorted(collection, array) == [collection |-> collection, ret |-> array]

RECURSIVE BubblePass(_, _, _, _)
\* BubbleSort, lines 107-112: the inner loop from current on; the result is
\* the array and swapped
BubblePass(array, i, current, swapped) ==
  IF current < Len(array) - i
  THEN IF GreaterThan(Item(array, current), Item(array, current + 1))
       THEN BubblePass(swap(array, current, current + 1), i, current + 1, TRUE)
       ELSE BubblePass(array, i, current + 1, swapped)
  ELSE <<array, swapped>>

RECURSIVE BubbleLoop(_, _)
\* BubbleSort, lines 114-116: the break after a pass without a swap
BubbleBreak(pass, i) == IF ~pass[2] THEN pass[1] ELSE BubbleLoop(pass[1], i + 1)

\* BubbleSort, lines 104-117: the outer loop from i on
BubbleLoop(array, i) ==
  IF i < Len(array) THEN BubbleBreak(BubblePass(array, i, 0, FALSE), i) ELSE array

BubbleSort(collection) == Sorted(collection, BubbleLoop(Array_from(collection), 1))

RECURSIVE InsertionShift(_, _)
\* InsertionSort, lines 144-146: the inner loop from left on
InsertionShift(array, left) ==
  IF GreaterThan(Item(array, left - 1), Item(array, left))
  THEN InsertionShift(swap(array, left - 1, left), left - 1)
  ELSE array

RECURSIVE InsertionLoop(_, _)
\* InsertionSort, lines 143-147: the outer loop from right on
InsertionLoop(array, right) ==
  IF right < Len(array) THEN InsertionLoop(InsertionShift(array, right), right + 1)
  ELSE array

InsertionSort(collection) == Sorted(collection, InsertionLoop(Array_from(collection), 1))

RECURSIVE SelectionScan(_, _, _)
\* SelectionSort, lines 204-208: the inner loop from right on; the result
\* is selection
SelectionScan(array, selection, right) ==
  IF right < Len(array)
  THEN SelectionScan(array,
                     IF GreaterThan(Item(array, selection), Item(array, right))
                     THEN right ELSE selection,
                     right + 1)
  ELSE selection

\* SelectionSort, lines 210-212
SelectionPlace(array, left, selection) ==
  IF selection # left THEN swap(array, left, selection) ELSE array

RECURSIVE SelectionLoop(_, _)
\* SelectionSort, lines 201-213: the outer loop from left on
SelectionLoop(array, left) ==
  IF left < Len(array)
  THEN SelectionLoop(SelectionPlace(array, left, SelectionScan(array, left, left + 1)),
                     left + 1)
  ELSE array

SelectionSort(collection) == Sorted(collection, SelectionLoop(Array_from(collection), 0))

RECURSIVE MergeLoop(_, _, _, _, _)
\* merge, lines 268-277: the loop from index = j + k on
MergeLoop(firstHalf, secondHalf, j, k, mergedArray) ==
  IF j + k < Len(firstHalf) + Len(secondHalf)
  THEN IF k >= Len(secondHalf)
          \/ (j < Len(firstHalf) /\ LessOrEqual(Item(firstHalf, j), Item(secondHalf, k)))
       THEN MergeLoop(firstHalf, secondHalf, j + 1, k, Append(mergedArray, Item(firstHalf, j)))
       ELSE MergeLoop(firstHalf, secondHalf, j, k + 1, Append(mergedArray, Item(secondHalf, k)))
  ELSE mergedArray

merge(firstHalf, secondHalf) == MergeLoop(firstHalf, secondHalf, 0, 0, <<>>)

\* split, line 253: an array of two items
split_pair(array) ==
  IF LessThan(Item(array, 0), Item(array, 1)) THEN array
  ELSE <<Item(array, 1), Item(array, 0)>>

\* Math.ceil(size / 2)
CeilHalf(size) == (size + 1) \div 2

RECURSIVE split(_)
split(array) ==
  IF Len(array) < 2 THEN array
  ELSE IF Len(array) = 2 THEN split_pair(array)
  ELSE merge(split(SubSeq(array, 1, CeilHalf(Len(array)))),
             split(SubSeq(array, CeilHalf(Len(array)) + 1, Len(array))))

MergeSort(collection) == Sorted(collection, split(Array_from(collection)))

RECURSIVE shuffle(_, _, _)
\* shuffle, lines 316-319: the loop from index on; random[index + 1] is the
\* value of Math.floor(Math.random() * array.length) in that round
shuffle(array, random, index) ==
  IF index < Len(array)
  THEN shuffle(swap(array, index, random[index + 1]), random, index + 1)
  ELSE array

RECURSIVE partitionLoop(_, _, _, _, _)
\* partition, lines 337-342: the loop from current on; the result is the
\* array and pivotIndex
partitionLoop(array, start, end, pivotIndex, current) ==
  IF current <= end
  THEN IF LessThan(Item(array, current), Item(array, start))
       THEN partitionLoop(swap(array, current, pivotIndex + 1), start, end,
                          pivotIndex + 1, current + 1)
       ELSE partitionLoop(array, start, end, pivotIndex, current + 1)
  ELSE <<array, pivotIndex>>

\* as partition, but the pivot is not moved between the two parts
partition_leavesPivot(array, start, end) == partitionLoop(array, start, end, start, start + 1)

\* partition: the array after it and the pivot index it returns
partitionSwap(looped, start) == <<swap(looped[1], start, looped[2]), looped[2]>>
partition(array, start, end) ==
  partitionSwap(partitionLoop(array, start, end, start, start + 1), start)

RECURSIVE quicksort(_, _, _)
\* _quicksort, lines 327-328: the two recursive calls
quicksortParts(parted, start, end) ==
  quicksort(quicksort(parted[1], start, parted[2] - 1), parted[2] + 1, end)

\* _quicksort(array, start, end)
quicksort(array, start, end) ==
  IF start < end THEN quicksortParts(partition(array, start, end), start, end)
  ELSE array

\* the arrays of values Math.random can give shuffle for an array
Randoms(array) == [1..Len(array) -> 0..(Len(array) - 1)]

QuickSort(collection, random) ==
  Sorted(collection,
         quicksort(shuffle(Array_from(collection), random, 0), 0, Len(collection) - 1))

(* ------------------------ the reference array -------------------------- *)

InsertAt(s, i, d) == SubSeq(s, 1, i) \o <<d>> \o SubSeq(s, i + 1, Len(s))
RemoveAt(s, i) == SubSeq(s, 1, i) \o SubSeq(s, i + 2, Len(s))

(* ---------------------------- List actions ----------------------------- *)

ListData == {Num(n) : n \in 1..MaxData}

ListInit ==
  /\ list = List_new
  /\ listRes = [op |-> "new", data |-> Null, index |-> Null, ret |-> Null, err |-> "none"]
  /\ listRef = [items |-> <<>>, ret |-> Null]

\* list.add(data, atIndex) and, with atIndex = count, list.add(data)
ListAdd ==
  \E data \in ListData, i \in -1..(list.count + 1) :
    /\ list.count < MaxLen
    /\ LET r == List_add(list, data, Num(i))
       IN  /\ list' = Collect(r.self)
           /\ listRes' = [op |-> "add", data |-> data, index |-> Num(i), ret |-> r.ret, err |-> r.err]
    /\ listRef' = IF 0 <= i /\ i <= Len(listRef.items)
                  THEN [items |-> InsertAt(listRef.items, i, data), ret |-> Null]
                  ELSE [listRef EXCEPT !.ret = Null]
    /\ UNCHANGED <<mapVars, treeVars, graphVars, moreVars>>

\* list.remove(index) and, with index = count - 1, list.remove()
ListRemove ==
  \E i \in -1..(list.count + 1) :
    /\ LET r == List_remove(list, Num(i))
       IN  /\ list' = Collect(r.self)
           /\ listRes' = [op |-> "remove", data |-> Null, index |-> Num(i), ret |-> r.ret, err |-> r.err]
    /\ listRef' = IF 0 <= i /\ i < Len(listRef.items)
                  THEN [items |-> RemoveAt(listRef.items, i), ret |-> listRef.items[i + 1]]
                  ELSE [listRef EXCEPT !.ret = Null]
    /\ UNCHANGED <<mapVars, treeVars, graphVars, moreVars>>

ListNext == ListAdd \/ ListRemove

\* the indexes passed to itemAtIndex: all of the list and two beyond each end
ListIndexes == (-2)..(MaxLen + 1)

\* list.itemAtIndex(index)
ListItemAtIndex ==
  \E i \in ListIndexes :
    /\ LET r == List_itemAtIndex(list, Num(i))
       IN  /\ list' = Collect(r.self)
           /\ listRes' = [op |-> "itemAtIndex", data |-> Null, index |-> Num(i),
                          ret |-> r.ret, err |-> r.err]
    /\ listRef' = [listRef EXCEPT !.ret = Null]
    /\ UNCHANGED <<mapVars, treeVars, graphVars, moreVars>>

ListReadNext == ListAdd \/ ListRemove \/ ListItemAtIndex

(* --------------------------- HashMap actions --------------------------- *)

Occurrences(s, k) == Cardinality({j \in 1..Len(s) : s[j] = k})

MapKeySet == {KeyOf(i) : i \in 1..MapKeys}
FillKeySet == {KeyOf(i) : i \in 1..(MaxCap + 1)}
MapValues == {Str(<<120>>), Str(<<121>>)}
Thresholds == {DefaultRehashThreshold, <<1, 2>>}
\* capacity 1 puts every key in one bucket; capacity MapCap spreads them
MapCapacities == {1, MapCap}

\* new HashMap(capacity, rehashThreshold)
MapInit(capacities, thresholds) ==
  \E capacity \in capacities, rehashThreshold \in thresholds :
    /\ map = HashMap_new(capacity, rehashThreshold)
    /\ mapRes = [op |-> "new", key |-> Null, ret |-> Null, err |-> "none",
                 hadKey |-> FALSE, countBefore |-> 0,
                 rehashed |-> FALSE, before |-> HashMap_new(capacity, rehashThreshold)]
    /\ mapPrev = Null
    /\ mapRef = [content |-> [k \in {} |-> Null],
                 capacity |-> capacity, rehashThreshold |-> rehashThreshold,
                 order |-> <<>>]
    /\ rehashes = 0

\* what the next call is preceded by: the key the last call added, with the
\* count before it, when the last call was an add of a key not in the map
NewKeyAdded ==
  IF mapRes.op = "add" /\ ~mapRes.hadKey
  THEN [key |-> mapRes.key, countBefore |-> mapRes.countBefore]
  ELSE Null

\* the call map.add(key, value)
Added(key, value) ==
  LET put == HashMap_put(map, key, value)
      after == HashMap_add(map, key, value)
      rehashed == Length(after) # Length(map)
  IN  /\ map' = after
      /\ mapRes' = [op |-> "add", key |-> key, ret |-> Null, err |-> "none",
                    hadKey |-> HashMap_getNodeFor(map, key) # Null,
                    countBefore |-> HashMap_count(map),
                    rehashed |-> rehashed,
                    before |-> IF rehashed THEN put ELSE map]
      /\ mapPrev' = NewKeyAdded
      /\ mapRef' = [mapRef EXCEPT !.content = [k \in DOMAIN @ \cup {key} |->
                                                IF k = key THEN value ELSE @[k]],
                                  !.order = IF Occurrences(@, key) > 0 THEN @
                                            ELSE Append(@, key)]
      /\ rehashes' = IF rehashed THEN rehashes + 1 ELSE rehashes

MapAdd ==
  \E key \in MapKeySet, value \in MapValues :
    /\ Added(key, value)
    /\ UNCHANGED <<listVars, treeVars, graphVars, moreVars>>

MapDelete ==
  \E key \in MapKeySet :
    /\ LET r == HashMap_delete(map, key)
       IN  /\ map' = r.self
           /\ mapRes' = [op |-> "delete", key |-> key, ret |-> r.ret, err |-> r.err,
                         hadKey |-> HashMap_getNodeFor(map, key) # Null,
                         countBefore |-> HashMap_count(map),
                         rehashed |-> FALSE, before |-> map]
    /\ mapPrev' = NewKeyAdded
    /\ mapRef' = [mapRef EXCEPT !.content = [k \in DOMAIN @ \ {key} |-> @[k]]]
    /\ UNCHANGED <<rehashes, listVars, treeVars, graphVars, moreVars>>

\* map.add(key, value) for a key that is not in the map yet
MapAddNew ==
  \E key \in FillKeySet :
    /\ ~HashMap_has(map, key)
    /\ Added(key, Str(<<120>>))
    /\ UNCHANGED <<listVars, treeVars, graphVars, moreVars>>

MapNext == MapAdd \/ MapDelete

\* numbers and the strings that String() turns them into, e.g. 1 and "1"
MixedKeySet == {Num(n) : n \in 1..MixedKeys} \cup {Str(Digits(n)) : n \in 1..MixedKeys}

\* map.add(key, value) with a number or the string of a number as key
MapAddMixed ==
  \E key \in MixedKeySet, value \in MapValues :
    /\ Added(key, value)
    /\ UNCHANGED <<listVars, treeVars, graphVars, moreVars>>

(* ---------------------- BinarySearchTree actions ----------------------- *)

TreeData == {Num(d) : d \in 1..MaxTreeData}
TreeCopies == {Star, Num(1), Num(2)}

TreeInit ==
  /\ tree = BinarySearchTree_new
  /\ treeRes = [op |-> "new", data |-> Null, copies |-> Null, ret |-> Null, err |-> "none"]

\* count and the copies of every node are within the bounds, and there are
\* no more nodes than distinct data
TreeInBounds(t) ==
  /\ t.count <= MaxTreeCount /\ t.count >= 0 - MaxTreeCount
  /\ Len(t.nodes) <= MaxTreeData
  /\ \A i \in DOMAIN t.nodes :
       t.nodes[i].copies <= MaxTreeCount /\ t.nodes[i].copies >= 0 - MaxTreeDebt

\* the call returned or threw r
TreeCalled(op, data, copies, r) ==
  /\ TreeInBounds(BST_collect(r.self))
  /\ tree' = BST_collect(r.self)
  /\ treeRes' = [op |-> op, data |-> data, copies |-> copies,
                 ret |-> Moved(Visit(r.self, <<r.self.root>>, <<>>), r.ret), err |-> r.err]

\* tree.add(data)
TreeAdd ==
  \E data \in TreeData :
    /\ TreeCalled("add", data, Null, BST_add(tree, data))
    /\ UNCHANGED <<listVars, mapVars, graphVars, moreVars>>

\* tree.remove(data, copies) and, with copies = "*", tree.remove(data)
TreeRemove ==
  \E data \in TreeData, copies \in TreeCopies :
    /\ TreeCalled("remove", data, copies, BST_remove(tree, data, copies))
    /\ UNCHANGED <<listVars, mapVars, graphVars, moreVars>>

TreeNext == TreeAdd \/ TreeRemove

\* the same calls with one value fewer, which keeps the trees small when the
\* bounds grow
TreeFewData == {Num(d) : d \in 1..(MaxTreeData - 1)}

TreeAddFew ==
  \E data \in TreeFewData :
    /\ TreeCalled("add", data, Null, BST_add(tree, data))
    /\ UNCHANGED <<listVars, mapVars, graphVars, moreVars>>

TreeRemoveFew ==
  \E data \in TreeFewData, copies \in TreeCopies :
    /\ TreeCalled("remove", data, copies, BST_remove(tree, data, copies))
    /\ UNCHANGED <<listVars, mapVars, graphVars, moreVars>>

TreeFewNext == TreeAddFew \/ TreeRemoveFew

(* ----------------------------- Graph actions -------------------------- *)

GraphData == {KeyOf(i) : i \in 1..MaxVertices}

\* new Graph(directed)
GraphInit(directions) ==
  \E directed \in directions :
    /\ graph = Graph_new(directed)
    /\ graphRes = [op |-> "new", source |-> Null, destination |-> Null,
                   ret |-> Null, err |-> "none"]

RECURSIVE Entries(_, _)
\* the number of neighbour entries of the nodes at the addresses up to a
Entries(g, a) == IF a = 0 THEN 0 ELSE Len(g.heap[a].neighbours) + Entries(g, a - 1)

GraphInBounds(g) == Entries(g, Len(g.heap)) <= MaxEdges

\* the call returned or threw r
GraphCalled(op, source, destination, r) ==
  /\ GraphInBounds(r.self)
  /\ graph' = r.self
  /\ graphRes' = [op |-> op, source |-> source, destination |-> destination,
                  ret |-> r.ret, err |-> r.err]

\* graph.addVertex(data)
GraphAddVertex ==
  \E data \in GraphData :
    /\ GraphCalled("addVertex", data, Null, Graph_addVertex(graph, data))
    /\ UNCHANGED <<listVars, mapVars, treeVars, moreVars>>

\* graph.removeVertex(data)
GraphRemoveVertex ==
  \E data \in GraphData :
    /\ GraphCalled("removeVertex", data, Null, Graph_removeVertex(graph, data))
    /\ UNCHANGED <<listVars, mapVars, treeVars, moreVars>>

\* graph.addEdge(source, destination)
GraphAddEdge ==
  \E source \in GraphData, destination \in GraphData :
    /\ GraphCalled("addEdge", source, destination, Graph_addEdge(graph, source, destination))
    /\ UNCHANGED <<listVars, mapVars, treeVars, moreVars>>

\* graph.removeEdge(source, destination)
GraphRemoveEdge ==
  \E source \in GraphData, destination \in GraphData :
    /\ GraphCalled("removeEdge", source, destination,
                   Graph_removeEdge(graph, source, destination))
    /\ UNCHANGED <<listVars, mapVars, treeVars, moreVars>>

GraphNext == GraphAddVertex \/ GraphRemoveVertex \/ GraphAddEdge \/ GraphRemoveEdge

\* Vertices are named in the order in which they are first used: the names
\* play no part in a search.
NextNames(n) == {KeyOf(i) : i \in 1..(IF n < MaxPathVertices THEN n + 1 ELSE MaxPathVertices)}

\* graph.addEdge(source, destination) on a graph of up to MaxPathVertices
\* vertices and MaxPathEdges neighbour entries
PathAddEdge ==
  \E source \in NextNames(Graph_count(graph)) :
    \E destination \in NextNames(Graph_count(graph)
                                  + (IF HashMap_has(graph.nodes, source) THEN 0 ELSE 1)) :
      /\ graph' = Graph_addEdge(graph, source, destination).self
      /\ Entries(graph', Len(graph'.heap)) <= MaxPathEdges
      /\ graphRes' = [op |-> "addEdge", source |-> source, destination |-> destination,
                      ret |-> Graph_addEdge(graph, source, destination).ret,
                      err |-> Graph_addEdge(graph, source, destination).err]
      /\ UNCHANGED <<listVars, mapVars, treeVars, moreVars>>

(* ------------------------- Graph search, by steps ---------------------- *)

\* Search, lines 188-191: the generator before its first iteration
Graph_SearchBegin(first, Type) ==
  [phase |-> "running", Type |-> Type,
   visited |-> HashMap_new(DefaultCapacity, DefaultRehashThreshold),
   visitList |-> Push(List_new, first),
   out |-> <<>>, removals |-> 0]

\* as Graph_SearchPopped, but a node that was visited is yielded again
Graph_SearchPopped_revisits(g, s, popped) ==
  IF popped.ret # Null
  THEN [s EXCEPT !.visited = HashMap_add(@, popped.ret, Null),
                 !.visitList = Collect(PushAll(popped.self, g.heap[popped.ret.id].neighbours, 1)),
                 !.out = Append(@, popped.ret),
                 !.removals = @ + 1]
  ELSE [s EXCEPT !.visitList = Collect(popped.self), !.removals = @ + 1]

\* Search, lines 195-199: popped is what pop or dequeue returned
Graph_SearchPopped(g, s, popped) ==
  IF popped.ret # Null /\ ~HashMap_has(s.visited, popped.ret)
  THEN [s EXCEPT !.visited = HashMap_add(@, popped.ret, Null),
                 !.visitList = Collect(PushAll(popped.self, g.heap[popped.ret.id].neighbours, 1)),
                 !.out = Append(@, popped.ret),
                 !.removals = @ + 1]
  ELSE [s EXCEPT !.visitList = Collect(popped.self), !.removals = @ + 1]

\* no generator
NoSearch ==
  [phase |-> "idle", Type |-> "Stack",
   visited |-> HashMap_new(DefaultCapacity, DefaultRehashThreshold),
   visitList |-> List_new, out |-> <<>>, removals |-> 0]

SearchInit == searching = NoSearch

\* graph.searchDepthFirst(startValue) or graph.searchBreadthFirst(startValue)
SearchStart ==
  \E startValue \in GraphData, Type \in {"Stack", "Queue"} :
    /\ searching.phase = "idle"
    /\ searching' = Graph_SearchBegin(HashMap_get(graph.nodes, startValue), Type)
    /\ UNCHANGED <<listVars, mapVars, treeVars, graphVars, stackVars, queueVars, sortVars, tmapVars>>

\* the loop condition of line 193 holds: one iteration
SearchStep ==
  /\ searching.phase = "running"
  /\ searching.visitList.count > 0
  /\ \E popped \in {Pop(searching.visitList, searching.Type)} :
       searching' = Graph_SearchPopped(graph, searching, popped)
  /\ UNCHANGED <<listVars, mapVars, treeVars, graphVars, stackVars, queueVars, sortVars, tmapVars>>

\* the loop condition of line 193 fails: the sequence ends
SearchEnd ==
  /\ searching.phase = "running"
  /\ searching.visitList.count <= 0
  /\ searching' = [searching EXCEPT !.phase = "done"]
  /\ UNCHANGED <<listVars, mapVars, treeVars, graphVars, stackVars, queueVars, sortVars, tmapVars>>

\* the generator is dropped
SearchClose ==
  /\ searching.phase = "done"
  /\ searching' = NoSearch
  /\ UNCHANGED <<listVars, mapVars, treeVars, graphVars, stackVars, queueVars, sortVars, tmapVars>>

\* the graph is built while no search is under way: a search is over a graph
\* that does not change
SearchBuild ==
  /\ searching.phase = "idle"
  /\ GraphAddEdge
  /\ Entries(graph', Len(graph'.heap)) <= MaxSearchEdges

SearchNext == SearchBuild \/ SearchStart \/ SearchStep \/ SearchEnd \/ SearchClose

(* ----------------------------- Stack actions -------------------------- *)

StackData == {Num(n) : n \in 1..MaxItem}

StackInit ==
  /\ stack = Stack_new
  /\ stackRes = [op |-> "new", item |-> Null, ret |-> Null, err |-> "none"]
  /\ stackRef = [items |-> <<>>, top |-> Null]


\* the call returned or threw r; items is what a last-in-first-out sequence
\* holds after the call and top what it hands out
StackCalled(op, item, r, items, top) ==
  /\ stack' = [r.self EXCEPT !.items = Collect(@)]
  /\ stackRes' = [op |-> op, item |-> item, ret |-> r.ret, err |-> r.err]
  /\ stackRef' = [items |-> items, top |-> top]

\* the last item of a sequence, null for the empty one
Top(items) == IF items = <<>> THEN Null ELSE items[Len(items)]

\* stack.push(item)
StackPush ==
  \E item \in StackData :
    /\ Stack_depth(stack) < MaxDepth
    /\ StackCalled("push", item, Stack_push(stack, item), Append(stackRef.items, item), Null)
    /\ UNCHANGED <<listVars, mapVars, treeVars, graphVars, queueVars, sortVars, tmapVars, searchVars>>

\* stack.pop()
StackPop ==
  /\ StackCalled("pop", Null, Stack_pop(stack),
                 SubSeq(stackRef.items, 1, Len(stackRef.items) - 1), Top(stackRef.items))
  /\ UNCHANGED <<listVars, mapVars, treeVars, graphVars, queueVars, sortVars, tmapVars, searchVars>>

\* stack.peek()
StackPeek ==
  /\ StackCalled("peek", Null, Stack_peek(stack), stackRef.items, Top(stackRef.items))
  /\ UNCHANGED <<listVars, mapVars, treeVars, graphVars, queueVars, sortVars, tmapVars, searchVars>>

StackNext == StackPush \/ StackPop \/ StackPeek

(* ----------------------------- Queue actions -------------------------- *)

QueueData == {Num(n) : n \in 1..MaxItem}

QueueInit ==
  /\ queue = Queue_new
  /\ queueRes = [op |-> "new", item |-> Null, ret |-> Null, err |-> "none"]
  /\ queueRef = [items |-> <<>>, front |-> Null]


\* the call returned or threw r; items is what a first-in-first-out sequence
\* holds after the call and front what it hands out
QueueCalled(op, item, r, items, front) ==
  /\ queue' = [r.self EXCEPT !.items = Collect(@)]
  /\ queueRes' = [op |-> op, item |-> item, ret |-> r.ret, err |-> r.err]
  /\ queueRef' = [items |-> items, front |-> front]

\* queue.enqueue(item)
QueueEnqueue ==
  \E item \in QueueData :
    /\ Queue_length(queue) < MaxDepth
    /\ QueueCalled("enqueue", item, Queue_enqueue(queue, item),
                   Append(queueRef.items, item), Null)
    /\ UNCHANGED <<listVars, mapVars, treeVars, graphVars, stackVars, sortVars, tmapVars, searchVars>>

\* queue.dequeue()
QueueDequeue ==
  /\ QueueCalled("dequeue", Null, Queue_dequeue(queue),
                 SubSeq(queueRef.items, 2, Len(queueRef.items)),
                 IF queueRef.items = <<>> THEN Null ELSE Head(queueRef.items))
  /\ UNCHANGED <<listVars, mapVars, treeVars, graphVars, stackVars, sortVars, tmapVars, searchVars>>

QueueNext == QueueEnqueue \/ QueueDequeue

\* a stack and a queue side by side, of up to MaxFacadeDepth items each
FacadeStack ==
  /\ StackNext
  /\ Stack_depth(stack') <= MaxFacadeDepth

FacadeQueue ==
  /\ QueueNext
  /\ Queue_length(queue') <= MaxFacadeDepth

FacadeNext == FacadeStack \/ FacadeQueue

(* ---------------------------- sorting actions ------------------------- *)

\* the collections of n items: the item at position i carries i, so that
\* items of the same key can be told apart
SortInputsOf(n) ==
  {[i \in 1..n |-> [key |-> keys[i], at |-> i]] : keys \in [1..n -> 1..MaxSortKey]}

SortInputs == UNION {SortInputsOf(n) : n \in 0..MaxSortLen}

\* the collection the sorts are called with
SortInit(inputs) ==
  /\ sortIn \in inputs
  /\ sortRes = [op |-> "none", ret |-> <<>>]


\* the call returned r.  The sorts keep nothing between two calls: a
\* behaviour is one call, on the collection drawn at the start.
SortCalled(op, r) ==
  /\ sortRes.op = "none"
  /\ sortIn' = r.collection
  /\ sortRes' = [op |-> op, ret |-> r.ret]

SortBubble ==
  /\ SortCalled("BubbleSort", BubbleSort(sortIn))
  /\ UNCHANGED <<listVars, mapVars, treeVars, graphVars, stackVars, queueVars, tmapVars, searchVars>>

SortInsertion ==
  /\ SortCalled("InsertionSort", InsertionSort(sortIn))
  /\ UNCHANGED <<listVars, mapVars, treeVars, graphVars, stackVars, queueVars, tmapVars, searchVars>>

SortSelection ==
  /\ SortCalled("SelectionSort", SelectionSort(sortIn))
  /\ UNCHANGED <<listVars, mapVars, treeVars, graphVars, stackVars, queueVars, tmapVars, searchVars>>

SortMerge ==
  /\ SortCalled("MergeSort", MergeSort(sortIn))
  /\ UNCHANGED <<listVars, mapVars, treeVars, graphVars, stackVars, queueVars, tmapVars, searchVars>>

\* QuickSort(collection), for every outcome of its calls of Math.random
SortQuick ==
  \E random \in Randoms(sortIn) :
    /\ SortCalled("QuickSort", QuickSort(sortIn, random))
    /\ UNCHANGED <<listVars, mapVars, treeVars, graphVars, stackVars, queueVars, tmapVars, searchVars>>

SortNext == SortBubble \/ SortInsertion \/ SortSelection \/ SortMerge \/ SortQuick

(* ---------------------------- TreeMap actions ------------------------- *)

TmapKeys == {Num(d) : d \in 1..MaxTreeData}
TmapValues == {Str(<<120>>), Str(<<121>>)}

TmapInit ==
  /\ tmap = TreeMap_new
  /\ tmapRes = [op |-> "new", key |-> Null, value |-> Null, ret |-> Null, err |-> "none"]

MoreInit == StackInit /\ QueueInit /\ SortInit({<<>>}) /\ TmapInit /\ SearchInit

\* the call returned or threw r
TmapCalled(op, key, value, r) ==
  /\ TreeInBounds(BST_collect(r.self.tree))
  /\ tmap' = [r.self EXCEPT !.tree = BST_collect(@)]
  /\ tmapRes' = [op |-> op, key |-> key, value |-> value, ret |-> r.ret, err |-> r.err]

\* map.add(key, value)
TmapAdd ==
  \E key \in TmapKeys, value \in TmapValues :
    /\ TmapCalled("add", key, value, TreeMap_add(tmap, key, value))
    /\ UNCHANGED <<listVars, mapVars, treeVars, graphVars, stackVars, queueVars, sortVars, searchVars>>

\* map.delete(key)
TmapDelete ==
  \E key \in TmapKeys :
    /\ TmapCalled("delete", key, Null, TreeMap_delete(tmap, key))
    /\ UNCHANGED <<listVars, mapVars, treeVars, graphVars, stackVars, queueVars, sortVars, searchVars>>

TmapNext == TmapAdd \/ TmapDelete

(* --------------------------- List properties --------------------------- *)

\* the addresses met from p by following the link, at most fuel of them
Walk(l, p, fuel, forward) ==
  LET RECURSIVE go(_, _)
      go(q, n) == IF q = Null \/ n = 0 THEN <<>>
                  ELSE <<q.id>> \o go(IF forward THEN l.nodes[q.id].next
                                                 ELSE l.nodes[q.id].previous, n - 1)
  IN  go(p, fuel)

\* C1: after every sequence of add(data, i) and remove(i) the list agrees with
\* the reference array on which the same insertions and deletions were made:
\* count is its length, itemAtIndex(j) is its element j, an add leaves data
\* at position i, and a remove returns the element that was at position i.
C1_ListMatchesReferenceArray ==
  /\ list.count = Len(listRef.items)
  /\ \A j \in 0..(list.count - 1) :
       List_itemAtIndex(list, Num(j)) = Returned(list, listRef.items[j + 1])
  /\ (listRes.op = "add" /\ listRes.err = "none")
       => List_itemAtIndex(list, listRes.index) = Returned(list, listRes.data)
  /\ listRes.op = "remove" => listRes.ret = listRef.ret

\* an item was removed from the middle of a list that had been built with an
\* insertion in the middle
C1_Witness ==
  /\ listRes.op = "remove" /\ listRes.err = "none"
  /\ listRes.index = Num(1) /\ list.count >= 2
  /\ listRes.ret # Null

\* C2: after every sequence of add and remove the list is well linked: next
\* from first visits exactly count nodes, previous from last visits the same
\* nodes in reverse order, first.previous and last.next are empty, and first
\* is empty iff last is empty iff count = 0.
C2_WellLinked ==
  LET fuel == Cardinality(DOMAIN list.nodes) + 1
      F == Walk(list, list.first, fuel, TRUE)
      B == Walk(list, list.last, fuel, FALSE)
  IN  /\ Len(F) = list.count
      /\ Cardinality({F[k] : k \in 1..Len(F)}) = list.count
      /\ Len(B) = list.count
      /\ \A k \in 1..Len(B) : k <= Len(F) /\ B[k] = F[Len(F) + 1 - k]
      /\ list.first # Null => list.nodes[list.first.id].previous = Null
      /\ list.last # Null => list.nodes[list.last.id].next = Null
      /\ (list.first = Null) <=> (list.last = Null)
      /\ (list.first = Null) <=> (list.count = 0)

\* the only node of a list has just been removed
C2_Witness ==
  /\ listRes.op = "remove" /\ listRes.ret # Null
  /\ list.count = 0

(* -------------------------- HashMap properties ------------------------- *)

\* the keys any call may be asked about: the ones the calls add and two more
ProbeKeys == MapKeySet \cup FillKeySet

\* the keys of the entries of bucket i, in list order
BucketKeys(m, i) ==
  LET bucket == m.buckets[i]
  IN  IF bucket = Null THEN <<>>
      ELSE LET w == Walk(bucket, bucket.first, Cardinality(DOMAIN bucket.nodes) + 1, TRUE)
           IN  [j \in 1..Len(w) |-> bucket.nodes[w[j]].data.key]

RECURSIVE EntriesUpTo(_, _)
\* the number of entries in buckets 0..i
EntriesUpTo(m, i) ==
  IF i < 0 THEN 0 ELSE Len(BucketKeys(m, i)) + EntriesUpTo(m, i - 1)

\* C3: after any sequence of add calls, with or without a rehash, get(k) is
\* the value of the most recent add(k, v) for every key added so far and null
\* for a key that was never added.
C3_GetReturnsLatestAdd ==
  \A k \in ProbeKeys :
    HashMap_get(map, k) = IF k \in DOMAIN mapRef.content THEN mapRef.content[k] ELSE Null

\* a key was given a new value after the map had been rehashed twice, while
\* the other keys hold the values of their first add
C3_Witness ==
  /\ mapRes.op = "add" /\ mapRes.hadKey /\ rehashes >= 2
  /\ HashMap_get(map, mapRes.key) = Str(<<121>>)
  /\ \E k \in MapKeySet : k # mapRes.key /\ HashMap_get(map, k) = Str(<<120>>)

\* C4: for a key k that is not in the map, add(k, v) followed by delete(k)
\* leaves has(k) false and count equal to its value before the add.
C4_AddDeleteRoundTrip ==
  (mapRes.op = "delete" /\ mapPrev # Null /\ mapRes.key = mapPrev.key)
    => /\ mapRes.err = "none"
       /\ ~HashMap_has(map, mapRes.key)
       /\ HashMap_count(map) = mapPrev.countBefore

\* C5: after any sequence of add and delete every live key is in exactly one
\* bucket's list, once, and exactly once in keys; size is the number of
\* entries in all buckets and the length of keys.
C5_KeysBucketsSizeAgree ==
  /\ \A k \in ProbeKeys :
       (HashMap_has(map, k) \/ HashMap_getNodeFor(map, k) # Null)
         => /\ Occurrences(map.keys, k) = 1
            /\ Occurrences(BucketKeys(map, HashMap_hash(map, k)), k) = 1
            /\ \A i \in DOMAIN map.buckets :
                 i # HashMap_hash(map, k) => Occurrences(BucketKeys(map, i), k) = 0
  /\ map.size = EntriesUpTo(map, Length(map) - 1)
  /\ map.size = Len(map.keys)

\* delete has been called on a map of three keys that was rehashed, two of
\* the keys sharing a bucket and the third alone in another
C5_Witness ==
  /\ mapRes.op = "delete" /\ rehashes >= 1 /\ map.size = 3
  /\ \E i, j \in DOMAIN map.buckets :
       Len(BucketKeys(map, i)) = 2 /\ Len(BucketKeys(map, j)) = 1

\* C6: delete(k) of a present key k completes without raising; afterwards
\* get(k) is null, count is one less, and get(k') is as before for every
\* other key k'.
C6_DeleteRemovesPresentKey ==
  (mapRes.op = "delete" /\ mapRes.hadKey)
    => /\ mapRes.err = "none"
       /\ HashMap_get(map, mapRes.key) = Null
       /\ HashMap_count(map) = mapRes.countBefore - 1
       /\ \A k \in ProbeKeys \ {mapRes.key} :
            HashMap_get(map, k) = HashMap_get(mapRes.before, k)

\* C7: a rehash changes no observable content: get(k) and has(k) are the same
\* before and after it for every key k, count is unchanged, and the capacity
\* becomes max(size, capacity) * 2.
C7_RehashKeepsContent ==
  mapRes.rehashed
    => /\ \A k \in ProbeKeys :
            /\ HashMap_get(map, k) = HashMap_get(mapRes.before, k)
            /\ HashMap_has(map, k) = HashMap_has(mapRes.before, k)
       /\ HashMap_count(map) = HashMap_count(mapRes.before)
       /\ Length(map) = Max(mapRes.before.size, Length(mapRes.before)) * 2

\* the add of a third key rehashed a map whose other two keys share a bucket
C7_Witness ==
  /\ mapRes.rehashed /\ mapRes.before.size = 3
  /\ mapRes.before.collisions >= 1
  /\ Length(map) = 2 * Length(mapRes.before)

\* C8 as stated: from an empty map of any capacity c >= 1 with threshold
\* 0.75, inserting c + 1 distinct keys triggers exactly one rehash, which
\* doubles the capacity from c to 2c.
C8_OneRehashAnyCapacity ==
  (mapRef.rehashThreshold = DefaultRehashThreshold /\ mapRef.capacity >= 1
     /\ map.size = mapRef.capacity + 1)
    => rehashes = 1 /\ Length(map) = 2 * mapRef.capacity

\* C8, amended: from an empty map of capacity c >= 2 with threshold 0.75,
\* inserting c + 1 distinct keys triggers exactly one rehash, which doubles
\* the capacity from c to 2c; for capacity 4 it is the add of the 4th
\* distinct key that makes the capacity 8.
C8_OneRehashFromCapacityTwo ==
  /\ (mapRef.rehashThreshold = DefaultRehashThreshold /\ mapRef.capacity >= 2
        /\ map.size = mapRef.capacity + 1)
       => rehashes = 1 /\ Length(map) = 2 * mapRef.capacity
  /\ (mapRef.rehashThreshold = DefaultRehashThreshold /\ mapRef.capacity = 4)
       => /\ map.size < 4 => rehashes = 0 /\ Length(map) = 4
          /\ map.size = 4 => mapRes.rehashed /\ rehashes = 1 /\ Length(map) = 8

\* five distinct keys have been added to a map created with capacity 4
C8_Witness ==
  /\ mapRef.rehashThreshold = DefaultRehashThreshold /\ mapRef.capacity = 4
  /\ map.size = 5 /\ rehashes = 1

(* --------------------- BinarySearchTree properties --------------------- *)

\* s, a sequence of nodes, is in non-descending order of data
NonDescending(t, s) ==
  \A k \in 1..(Len(s) - 1) : ~Less(t.nodes[s[k + 1].id].data, t.nodes[s[k].id].data)

RECURSIVE SumOfCopies(_, _)
\* the sum of copies over the nodes at the addresses S
SumOfCopies(t, S) ==
  IF S = {} THEN 0
  ELSE LET i == CHOOSE j \in S : TRUE
       IN  t.nodes[i].copies + SumOfCopies(t, S \ {i})

\* C9: after any sequence of add and remove the tree keeps the ordering: for
\* every node all data in its left subtree is less than or equal to the
\* node's data and all data in its right subtree is greater, and
\* traverseInOrderly yields the data in non-descending order.
C9_OrderingKept ==
  /\ \A i \in Subtree(tree, tree.root) :
       /\ \A j \in Subtree(tree, tree.nodes[i].left) :
            ~Less(tree.nodes[i].data, tree.nodes[j].data)
       /\ \A j \in Subtree(tree, tree.nodes[i].right) :
            Less(tree.nodes[i].data, tree.nodes[j].data)
  /\ tree.root # Null
       => /\ BST_traverseInOrderly(tree).err = "none"
          /\ NonDescending(tree, BST_traverseInOrderly(tree).ret)

\* C10: after any sequence of add and remove, count is the sum of copies over
\* the nodes reachable from root, no two reachable nodes hold the same data,
\* and every reachable node has copies >= 1.
C10_CountIsSumOfCopies ==
  /\ tree.count = SumOfCopies(tree, Subtree(tree, tree.root))
  /\ \A i, j \in Subtree(tree, tree.root) :
       i # j => tree.nodes[i].data # tree.nodes[j].data
  /\ \A i \in Subtree(tree, tree.root) : tree.nodes[i].copies >= 1

\* find(data) returns a node
Holds(t, data) == BST_find(t, data).err = "none" /\ BST_find(t, data).ret # Null

\* the copies of the node that find(data) returns
CopiesOf(t, data) == t.nodes[BST_find(t, data).ret.id].copies

\* the step is a call of remove that finds its data and takes all its copies
RemovesAll ==
  /\ treeRes'.op = "remove"
  /\ Holds(tree, treeRes'.data)
  /\ \/ treeRes'.copies = Star
     \/ treeRes'.copies.n >= CopiesOf(tree, treeRes'.data)

\* C11: after remove(x), or remove(x, n) with n >= the copies of x, find(x)
\* returns no node and every other value y that find returned before is
\* still returned by find(y), with the copies it had.
C11_RemoveAllKeepsOthers ==
  [][RemovesAll =>
       /\ BST_find(tree', treeRes'.data).err = "none"
       /\ BST_find(tree', treeRes'.data).ret = Null
       /\ \A y \in TreeData \ {treeRes'.data} :
            Holds(tree, y) => Holds(tree', y) /\ CopiesOf(tree', y) = CopiesOf(tree, y)]_vars

\* the step is a call of add with data that find returns a node for
AddsPresent == treeRes'.op = "add" /\ Holds(tree, treeRes'.data)

\* C12: add(x) with x in the tree links no node: root, the children of every
\* node and the copies of every other node are as before, the copies of x's
\* node and count are one higher.
C12_AddPresentKeepsShape ==
  [][AddsPresent =>
       tree' = [tree EXCEPT !.count = @ + 1,
                            !.nodes[BST_find(tree, treeRes'.data).ret.id].copies = @ + 1]]_vars

\* a duplicate has just been added: its node holds two copies or more
C12_Witness ==
  /\ treeRes.op = "add" /\ treeRes.err = "none"
  /\ Len(tree.nodes) >= 2
  /\ Holds(tree, treeRes.data) /\ CopiesOf(tree, treeRes.data) >= 2

\* the step is a call of remove(x, n) with 1 <= n < the copies of x
RemovesSome ==
  /\ treeRes'.op = "remove"
  /\ treeRes'.copies # Star
  /\ Holds(tree, treeRes'.data)
  /\ treeRes'.copies.n >= 1
  /\ treeRes'.copies.n < CopiesOf(tree, treeRes'.data)

\* C13: remove(x, n) with 1 <= n < the copies of x leaves root and the
\* children of every node as they were, lowers the copies of x's node and
\* count by n and returns x's node.
C13_RemoveSomeKeepsShape ==
  [][RemovesSome =>
       /\ tree' = [tree EXCEPT !.count = @ - treeRes'.copies.n,
                               !.nodes[BST_find(tree, treeRes'.data).ret.id].copies =
                                 @ - treeRes'.copies.n]
       /\ treeRes'.err = "none"
       /\ treeRes'.ret = BST_find(tree, treeRes'.data).ret]_vars

\* remove(x, 1) has just left a node that had two copies or more in a tree
\* of several nodes
C13_Witness ==
  /\ treeRes.op = "remove" /\ treeRes.copies = Num(1) /\ treeRes.err = "none"
  /\ Len(tree.nodes) >= 2
  /\ treeRes.ret \in {Ref(i) : i \in DOMAIN tree.nodes}
  /\ tree.nodes[treeRes.ret.id].data = treeRes.data
  /\ tree.nodes[treeRes.ret.id].copies >= 1

\* C14: add(data) returns the node of the tree that holds data after the
\* call, whether it was linked by the call or was there before.
C14_AddReturnsNodeOfTree ==
  treeRes.op = "add" /\ treeRes.err = "none"
    => /\ treeRes.ret \in {Ref(i) : i \in DOMAIN tree.nodes}
       /\ treeRes.ret = BST_find(tree, treeRes.data).ret

\* the references to the registered vertices
Vertices(g) == {HashMap_get(g.nodes, g.nodes.keys[i]) : i \in 1..Len(g.nodes.keys)}

\* the step is a call of removeVertex with the value of a vertex
RemovesVertex == graphRes'.op = "removeVertex" /\ HashMap_has(graph.nodes, graphRes'.source)

\* C15: after removeVertex(v) of an existing vertex no remaining vertex has
\* the removed node among its neighbours, v is no longer a vertex and count
\* is one less.
C15_RemoveVertexLeavesNoReference ==
  [][RemovesVertex =>
       /\ \A node \in Vertices(graph') :
            ~GraphNode_isNeighbour(graph'.heap[node.id],
                                   HashMap_get(graph.nodes, graphRes'.source))
       /\ ~HashMap_has(graph'.nodes, graphRes'.source)
       /\ HashMap_get(graph'.nodes, graphRes'.source) = Null
       /\ Graph_count(graph') = Graph_count(graph) - 1]_vars

\* C16: in an undirected graph B is a neighbour of A iff A is a neighbour of
\* B, for all vertices A and B.
C16_NeighboursSymmetric ==
  ~graph.isDirected =>
    \A A \in GraphData, B \in GraphData :
      HashMap_has(graph.nodes, A) /\ HashMap_has(graph.nodes, B)
        => (Graph_areNeighbours(graph, A, B) <=> Graph_areNeighbours(graph, B, A))

\* the step is a call addEdge(A, B) on a directed graph, with A # B and no
\* edge from B to A
AddsOneWayEdge ==
  /\ graphRes'.op = "addEdge"
  /\ graph.isDirected
  /\ graphRes'.source # graphRes'.destination
  /\ ~Graph_areNeighbours(graph, graphRes'.destination, graphRes'.source)

\* C17: on a directed graph addEdge(A, B), for distinct A and B with no edge
\* from B to A, makes areNeighbours(A, B) true, leaves areNeighbours(B, A)
\* false and makes both values vertices.
C17_DirectedEdgeIsOneWay ==
  [][AddsOneWayEdge =>
       /\ Graph_areNeighbours(graph', graphRes'.source, graphRes'.destination)
       /\ ~Graph_areNeighbours(graph', graphRes'.destination, graphRes'.source)
       /\ HashMap_has(graph'.nodes, graphRes'.source)
       /\ HashMap_has(graph'.nodes, graphRes'.destination)]_vars

\* addEdge has just made an edge on a directed graph whose other vertices
\* have edges too
C17_Witness ==
  /\ graphRes.op = "addEdge" /\ graph.isDirected
  /\ graphRes.source # graphRes.destination
  /\ Graph_areNeighbours(graph, graphRes.source, graphRes.destination)
  /\ ~Graph_areNeighbours(graph, graphRes.destination, graphRes.source)
  /\ Len(graph.heap) = MaxVertices
  /\ Entries(graph, Len(graph.heap)) >= 3

\* the references of the nodes that a path of neighbours leads to from node
Reach(g, node) ==
  LET RECURSIVE grow(_)
      grow(S) ==
        IF \A r \in S : \A k \in 1..Len(g.heap[r.id].neighbours) : g.heap[r.id].neighbours[k] \in S
        THEN S
        ELSE grow(S \cup UNION {{g.heap[r.id].neighbours[k] : k \in 1..Len(g.heap[r.id].neighbours)} :
                                 r \in S})
  IN  IF node = Null THEN {} ELSE grow({node})

\* out is first and then, each once, the nodes that first leads to
YieldsReachOnce(g, first, out) ==
  /\ {out[k] : k \in 1..Len(out)} = Reach(g, first)
  /\ \A i, j \in 1..Len(out) : i # j => out[i] # out[j]
  /\ first # Null => out # <<>> /\ out[1] = first

\* C18: searchDepthFirst(start) and searchBreadthFirst(start) yield the
\* vertices reachable from start, each exactly once and start first, on every
\* graph, with cycles and self-loops or not; when start is not a vertex they
\* yield nothing.
C18_SearchYieldsReachableOnce ==
  \A start \in GraphData :
    /\ YieldsReachOnce(graph, HashMap_get(graph.nodes, start),
                       Graph_searchDepthFirst(graph, start))
    /\ YieldsReachOnce(graph, HashMap_get(graph.nodes, start),
                       Graph_searchBreadthFirst(graph, start))
    /\ ~HashMap_has(graph.nodes, start)
         => /\ Graph_searchDepthFirst(graph, start) = <<>>
            /\ Graph_searchBreadthFirst(graph, start) = <<>>

\* a graph with a self-loop and a cycle between two vertices, in which both
\* searches from one vertex yield every vertex
C18_Witness ==
  \E start \in GraphData :
    /\ Len(Graph_searchDepthFirst(graph, start)) = MaxVertices
    /\ Len(Graph_searchBreadthFirst(graph, start)) = MaxVertices
    /\ \E A \in GraphData : Graph_areNeighbours(graph, A, A)
    /\ \E A \in GraphData, B \in GraphData :
         A # B /\ Graph_areNeighbours(graph, A, B) /\ Graph_areNeighbours(graph, B, A)

\* the last call was removeVertex of this value, and the value was a vertex
JustRemoved(data) ==
  /\ graphRes.op = "removeVertex" /\ graphRes.source = data
  /\ ~(graphRes.ret = Null /\ graphRes.err = "none")

RemovesEdge ==
  /\ graphRes'.op = "removeEdge"
  /\ HashMap_has(graph.nodes, graphRes'.source)
  /\ HashMap_has(graph.nodes, graphRes'.destination)

\* the pairs <<node, neighbour>> that removeEdge takes away for these nodes
Taken(g, sourceNode, destNode) ==
  IF g.isDirected THEN {<<sourceNode, destNode>>}
  ELSE {<<sourceNode, destNode>>, <<destNode, sourceNode>>}

\* every neighbour set of after is the one of before without the pairs taken
SetsWithout(before, after, taken) ==
  \A a \in 1..Len(before.heap), b \in 1..Len(before.heap) :
    GraphNode_isNeighbour(after.heap[a], Ref(b))
      <=> GraphNode_isNeighbour(before.heap[a], Ref(b)) /\ <<Ref(a), Ref(b)>> \notin taken

\* C20: removeEdge(S, D) returns false and changes nothing when S or D is no
\* vertex; otherwise it returns true, areNeighbours(S, D) is false afterwards
\* (and areNeighbours(D, S) on an undirected graph), and every other edge and
\* every vertex is as before.
C20_RemoveEdgeTakesOneEdge ==
  [][graphRes'.op = "removeEdge" =>
       IF RemovesEdge
       THEN /\ graphRes'.ret = Bool(TRUE) /\ graphRes'.err = "none"
            /\ ~Graph_areNeighbours(graph', graphRes'.source, graphRes'.destination)
            /\ ~graph.isDirected
                 => ~Graph_areNeighbours(graph', graphRes'.destination, graphRes'.source)
            /\ SetsWithout(graph, graph',
                           Taken(graph, HashMap_get(graph.nodes, graphRes'.source),
                                 HashMap_get(graph.nodes, graphRes'.destination)))
            /\ graph'.nodes = graph.nodes
            /\ graph'.isDirected = graph.isDirected
            /\ Len(graph'.heap) = Len(graph.heap)
            /\ \A a \in 1..Len(graph.heap) : graph'.heap[a].data = graph.heap[a].data
       ELSE /\ graphRes'.ret = Bool(FALSE) /\ graphRes'.err = "none"
            /\ graph' = graph]_vars

\* removeEdge has just returned true on a directed graph in which the edge
\* back is still there
C20_Witness ==
  /\ graphRes.op = "removeEdge" /\ graphRes.ret = Bool(TRUE)
  /\ graph.isDirected
  /\ graphRes.source # graphRes.destination
  /\ ~Graph_areNeighbours(graph, graphRes.source, graphRes.destination)
  /\ Graph_areNeighbours(graph, graphRes.destination, graphRes.source)

\* C21: removeVertex(data) returns the data of the removed vertex when data
\* is a vertex, and returns null leaving the graph as it was when it is not.
C21_RemoveVertexReturnsData ==
  [][graphRes'.op = "removeVertex" =>
       IF HashMap_has(graph.nodes, graphRes'.source)
         THEN graphRes'.err = "none" /\ graphRes'.ret = graphRes'.source
         ELSE graphRes'.err = "none" /\ graphRes'.ret = Null /\ graph' = graph]_vars

(* ------------------------ List error properties ------------------------ *)

\* the step is a call of itemAtIndex with an index outside [0, count)
ReadsOutside ==
  /\ listRes'.op = "itemAtIndex"
  /\ listRes'.index.n < 0 \/ listRes'.index.n >= list.count

C22_WitnessEmpty ==
  /\ listRes.op = "itemAtIndex" /\ listRes.err = "OutOfBoundsError"
  /\ listRes.index = Num(0)
  /\ list.count = 0

\* the step is a call of add with an index outside [0, count]
AddsOutside ==
  /\ listRes'.op = "add"
  /\ listRes'.index.n < 0 \/ listRes'.index.n > list.count

\* C23: add(data, atIndex) with atIndex < 0 or atIndex > count raises
\* OutOfBounds and leaves the list as it was: same count, same first and
\* last, same items in the same order.
C23_AddOutsideKeepsList ==
  [][AddsOutside =>
       /\ listRes'.err = "OutOfBoundsError"
       /\ list' = list
       /\ listRef'.items = listRef.items
       /\ \A j \in 0..(list.count - 1) :
            List_itemAtIndex(list', Num(j)).ret = listRef.items[j + 1]]_vars

\* add(data, count + 1) was called on a list of at least two items
C23_Witness ==
  /\ listRes.op = "add" /\ listRes.err = "OutOfBoundsError"
  /\ listRes.index = Num(list.count + 1)
  /\ list.count >= 2

\* the step is remove() on an empty list: the default index is count - 1
RemovesFromEmpty ==
  /\ listRes'.op = "remove"
  /\ list.count = 0
  /\ listRes'.index = Num(list.count - 1)

\* C24: remove() with the default index on an empty list does not raise: it
\* returns null and leaves count at 0 with first and last empty.
C24_RemoveFromEmpty ==
  [][RemovesFromEmpty =>
       /\ listRes'.err = "none"
       /\ listRes'.ret = Null
       /\ list'.count = 0
       /\ list'.first = Null
       /\ list'.last = Null]_vars

\* remove() was called on an empty list
C24_Witness ==
  /\ listRes.op = "remove" /\ listRes.err = "none"
  /\ listRes.index = Num(-1)
  /\ list.count = 0 /\ list.first = Null /\ list.last = Null

(* ----------------------- HashMap order properties ---------------------- *)

\* the key has an entry in the map
Live(m, key) == HashMap_getNodeFor(m, key) # Null

RECURSIVE LiveOf(_, _)
\* the keys of the sequence order that are live, in the order of the sequence
LiveOf(m, order) ==
  IF order = <<>> THEN <<>>
  ELSE IF Live(m, Head(order)) THEN <<Head(order)>> \o LiveOf(m, Tail(order))
  ELSE LiveOf(m, Tail(order))

\* C25: keys lists each live key once, in the order in which the keys were
\* first added, and values() yields get(k) for those keys in that same order;
\* this also holds after a rehash.
C25_KeysInInsertionOrder ==
  /\ HashMap_keys(map) = LiveOf(map, mapRef.order)
  /\ \A k \in ProbeKeys : Live(map, k) => Occurrences(HashMap_keys(map), k) = 1
  /\ HashMap_values(map) = [i \in 1..Len(LiveOf(map, mapRef.order)) |->
                              HashMap_get(map, LiveOf(map, mapRef.order)[i])]

\* three keys with two different values are in a map that has been rehashed
\* at least twice, and the keys are not in the order of their names
C25_Witness ==
  /\ rehashes >= 2 /\ Len(HashMap_keys(map)) = 3
  /\ HashMap_keys(map)[1] # KeyOf(1)
  /\ \E i, j \in 1..3 : HashMap_values(map)[i] # HashMap_values(map)[j]

(* ------------------------ Stack properties ----------------------------- *)

\* the items of a list from first to last
Items(l) ==
  LET w == Walk(l, l.first, Cardinality(DOMAIN l.nodes) + 1, TRUE)
  IN  [j \in 1..Len(w) |-> l.nodes[w[j]].data]

\* C26: the stack is last-in-first-out: after every sequence of push, pop
\* and peek the stack holds the items pushed and not yet popped, oldest
\* first; pop returns and removes the most recently pushed of them; peek
\* returns that same item and leaves the stack as it was; depth is the
\* number of pushes minus the number of pops of a non-empty stack.
C26_StackIsLastInFirstOut ==
  [][stackRes'.op \in {"push", "pop", "peek"} =>
       /\ Items(stack'.items) = stackRef'.items
       /\ Stack_depth(stack') = Len(stackRef'.items)
       /\ stackRes'.op = "push" => stackRes'.err = "none"
       /\ (stackRes'.op \in {"pop", "peek"} /\ stackRef.items # <<>>)
            => stackRes'.err = "none" /\ stackRes'.ret = stackRef'.top
       /\ stackRes'.op = "peek" => stack' = stack]_vars

\* a pop returned an item that differs from the one now on top, pushed
\* before it, and from the bottom one
C26_Witness ==
  /\ stackRes.op = "pop" /\ stackRes.err = "none"
  /\ Stack_depth(stack) = 2
  /\ stackRes.ret # Stack_peek(stack).ret
  /\ Items(stack.items)[1] # Items(stack.items)[2]

(* ------------------------ Queue properties ----------------------------- *)

\* C27: the queue is first-in-first-out: after every interleaving of
\* enqueue and dequeue the queue holds the items enqueued and not yet
\* dequeued, earliest first; dequeue returns and removes the earliest of
\* them; length is the number of those items.
C27_QueueIsFirstInFirstOut ==
  [][queueRes'.op \in {"enqueue", "dequeue"} =>
       /\ Items(queue'.items) = queueRef'.items
       /\ Queue_length(queue') = Len(queueRef'.items)
       /\ queueRes'.op = "enqueue" => queueRes'.err = "none"
       /\ (queueRes'.op = "dequeue" /\ queueRef.items # <<>>)
            => queueRes'.err = "none" /\ queueRes'.ret = queueRef'.front]_vars

\* a dequeue returned an item and left two different ones, enqueued after it
C27_Witness ==
  /\ queueRes.op = "dequeue" /\ queueRes.err = "none"
  /\ Queue_length(queue) = 2
  /\ queueRes.ret # Items(queue.items)[1]
  /\ Items(queue.items)[1] # Items(queue.items)[2]

(* ------------------------- sorting properties -------------------------- *)

\* the keys of the array do not decrease
Ascending(array) == \A i \in 1..(Len(array) - 1) : array[i].key <= array[i + 1].key

\* the array holds the items of the collection, each as often as it does
Permutation(array, collection) ==
  /\ Len(array) = Len(collection)
  /\ \A i \in 1..Len(collection) :
       Occurrences(array, collection[i]) = Occurrences(collection, collection[i])

C29_MergeSortStable ==
  sortRes.op = "MergeSort" =>
    \A i, j \in 1..Len(sortRes.ret) :
      (i < j /\ sortRes.ret[i].key = sortRes.ret[j].key)
        => sortRes.ret[i].at < sortRes.ret[j].at

(* ------------------------- TreeMap properties -------------------------- *)

\* has(key) is true
Present(m, key) == TreeMap_has(m, key) = Returned(m, Bool(TRUE))

\* the step is a call of delete with a key that is present
DeletesPresent == tmapRes'.op = "delete" /\ Present(tmap, tmapRes'.key)

\* C30: delete(key) of a present key, whatever position the key's node has
\* in the tree, makes has(key) false, lowers count by one, and leaves every
\* other key present with its value unchanged.
C30_DeleteTakesOneKey ==
  [][DeletesPresent =>
       /\ tmapRes'.err = "none"
       /\ TreeMap_has(tmap', tmapRes'.key) = Returned(tmap', Bool(FALSE))
       /\ TreeMap_count(tmap') = TreeMap_count(tmap) - 1
       /\ \A k \in TmapKeys \ {tmapRes'.key} :
            Present(tmap, k)
              => /\ Present(tmap', k)
                 /\ TreeMap_get(tmap', k).ret = TreeMap_get(tmap, k).ret]_vars

\* what findNode(data) returns: the node that holds data and its parent
Found(t, data) == BST_findNode(t, data, t.root, Null, Fuel(t)).ret

\* the tree in which the left subtree of node is the left child of the
\* leftmost descendant of its right subtree, when it has a right subtree
Grafted(t, node) ==
  IF t.nodes[node.id].right = Null \/ BST_getLeftmost(t, t.nodes[node.id].right, Fuel(t)).err # "none"
  THEN t
  ELSE [t EXCEPT !.nodes[BST_getLeftmost(t, t.nodes[node.id].right, Fuel(t)).ret.id].left =
                    t.nodes[node.id].left]

\* the subtree that takes the place of node: its right subtree, or its left
\* subtree when it has no right subtree
Heir(t, node) ==
  IF t.nodes[node.id].right # Null THEN t.nodes[node.id].right ELSE t.nodes[node.id].left

\* the tree with heir in the place of node: at the root, or under parent on
\* the side where node is
Replaced(t, node, parent, heir) ==
  IF parent = Null THEN [t EXCEPT !.root = heir]
  ELSE IF t.nodes[parent.id].left = node THEN [t EXCEPT !.nodes[parent.id].left = heir]
  ELSE [t EXCEPT !.nodes[parent.id].right = heir]

\* root and, for every node of the tree in the order of the walk, its data
\* and its children
Shape(t) ==
  [root |-> BST_collect(t).root,
   nodes |-> [k \in DOMAIN BST_collect(t).nodes |->
                [data |-> BST_collect(t).nodes[k].data,
                 left |-> BST_collect(t).nodes[k].left,
                 right |-> BST_collect(t).nodes[k].right]]]

\* C31: when remove splices out a node, its left subtree becomes the left
\* child of the leftmost descendant of its right subtree and the right
\* subtree takes the node's place under its parent on the side the node
\* occupied, or becomes root; without a right subtree the left subtree takes
\* that place.
C31_RemoveRecombines ==
  [][RemovesAll =>
       Shape(tree') = Shape(Replaced(Grafted(tree, Found(tree, treeRes'.data).node),
                                     Found(tree, treeRes'.data).node,
                                     Found(tree, treeRes'.data).parent,
                                     Heir(tree, Found(tree, treeRes'.data).node)))]_vars

\* the smaller of two numbers
Min(a, b) == IF a <= b THEN a ELSE b

\* the copies that remove(data, copies) takes from a tree: all the copies of
\* data, or no more than the number asked for, and none when find(data)
\* returns no node
Removed(t, data, copies) ==
  IF ~Holds(t, data) THEN 0
  ELSE IF copies = Star THEN CopiesOf(t, data)
  ELSE Min(copies.n, CopiesOf(t, data))

\* C32: remove(x, n) lowers count by exactly the number of copies removed:
\* min(n, c) where c is the copies of x before the call, c for remove(x), and
\* 0 when x is not in the tree; count never becomes negative.
C32_RemoveLowersCountByCopies ==
  [][treeRes'.op = "remove" =>
       /\ tree'.count = tree.count - Removed(tree, treeRes'.data, treeRes'.copies)
       /\ tree'.count >= 0]_vars

\* the keys added so far
AddedKeys == DOMAIN mapRef.content

\* C33 as stated: two keys with the same string form, such as 1 and "1", are
\* the same key: after add(k1, v1) and add(k2, v2) count is 1, get(k1) and
\* get(k2) both return v2, and has(k1) and has(k2) are both true.
C33_SameStringFormSameKey ==
  /\ HashMap_count(map) = Cardinality({String(k) : k \in AddedKeys})
  /\ mapRes.op = "add"
       => \A k \in AddedKeys :
            String(k) = String(mapRes.key)
              => /\ HashMap_get(map, k) = mapRef.content[mapRes.key]
                 /\ HashMap_has(map, k)

\* C33, amended: two keys with the same string form hash to the same bucket
\* but are the same key only when they are strictly equal: after add(1, v1)
\* and add("1", v2) count is 2, get(1) returns v1, get("1") returns v2 and
\* has is true of both; has and get of the one that was not added are false
\* and null.
C33_SameStringFormSameBucket ==
  /\ \A k1, k2 \in MixedKeySet :
       String(k1) = String(k2) => HashMap_hash(map, k1) = HashMap_hash(map, k2)
  /\ HashMap_count(map) = Cardinality(AddedKeys)
  /\ \A k \in MixedKeySet :
       /\ HashMap_has(map, k) <=> k \in AddedKeys
       /\ HashMap_get(map, k) = IF k \in AddedKeys THEN mapRef.content[k] ELSE Null

\* 1 and "1" are both in the map, in one bucket of several, with different
\* values, and the last call gave one of them a new value
C33_Witness ==
  /\ mapRes.op = "add" /\ mapRes.hadKey /\ String(mapRes.key) = <<49>>
  /\ {Num(1), Str(<<49>>)} \subseteq AddedKeys
  /\ mapRef.content[Num(1)] # mapRef.content[Str(<<49>>)]
  /\ Length(map) > 1
  /\ HashMap_getBucketFor(map, Num(1)).count >= 2

\* C34: every Graph search ends on every finite graph, with cycles or not:
\* it yields at most as many vertices as the graph has, it takes at most one
\* item from the frontier for the start and one for every neighbour entry,
\* and a search that is under way reaches the end of the sequence, where the
\* frontier is empty.
C34_SearchTerminates ==
  /\ [](Len(searching.out) <= Graph_count(graph))
  /\ [](searching.removals <= 1 + Entries(graph, Len(graph.heap)))
  /\ [](searching.phase = "done" => searching.visitList.count = 0)
  /\ (searching.phase = "running") ~> (searching.phase = "done")

\* a search has ended that yielded every vertex of a graph in which the
\* start can be reached from itself, and that met a vertex again
C34_Witness ==
  /\ searching.phase = "done"
  /\ Len(searching.out) = MaxVertices
  /\ searching.removals > Len(searching.out)
  /\ \E k \in 1..Len(graph.heap[searching.out[1].id].neighbours) :
       searching.out[1] \in Reach(graph, graph.heap[searching.out[1].id].neighbours[k])

\* the references to the nodes of the tree
NodesOf(t) == {Ref(i) : i \in Subtree(t, t.root)}

\* out holds every node of the tree exactly once
EachNodeOnce(t, out) ==
  /\ {out[k] : k \in 1..Len(out)} = NodesOf(t)
  /\ Len(out) = Cardinality(NodesOf(t))

\* C35: on every non-empty tree searchDepthFirst yields the nodes in exactly
\* the order of traversePreOrderly (the node, then its left subtree, then
\* its right subtree), each node once.
C35_DepthFirstIsPreOrder ==
  tree.root # Null
    => /\ BST_searchDepthFirst(tree, ReadLimit(tree))
            = BST_traversePreOrderly(tree, tree.root, ReadLimit(tree))
       /\ ~Cyclic(tree)
            => /\ BST_searchDepthFirst(tree, ReadLimit(tree)).err = "none"
               /\ EachNodeOnce(tree, BST_searchDepthFirst(tree, ReadLimit(tree)).ret)

RECURSIVE ChildrenOf(_, _)
\* the children of the nodes of a level, from left to right
ChildrenOf(t, level) ==
  IF level = <<>> THEN <<>>
  ELSE SelectSeq(<<t.nodes[Head(level).id].left, t.nodes[Head(level).id].right>>,
                 LAMBDA c : c # Null)
       \o ChildrenOf(t, Tail(level))

RECURSIVE LevelOrder(_, _, _)
\* the nodes level by level, from the nodes of one level on, up to n nodes
\* or a few more: a level, then the children of its nodes
LevelOrder(t, level, n) ==
  IF level = <<>> \/ n <= 0 THEN <<>>
  ELSE level \o LevelOrder(t, ChildrenOf(t, level), n - Len(level))

\* the first n values of a sequence
Prefix(s, n) == SubSeq(s, 1, IF Len(s) < n THEN Len(s) ELSE n)

\* C36: on every non-empty tree searchBreadthFirst yields every node exactly
\* once in level order: the root first, no node before a node of smaller
\* depth, and within a level a left child before its right sibling and the
\* children of earlier-yielded parents first.
C36_BreadthFirstIsLevelOrder ==
  tree.root # Null
    => /\ BST_searchBreadthFirst(tree, ReadLimit(tree)).ret
            = Prefix(LevelOrder(tree, <<tree.root>>, ReadLimit(tree)), ReadLimit(tree))
       /\ ~Cyclic(tree)
            => /\ BST_searchBreadthFirst(tree, ReadLimit(tree)).err = "none"
               /\ EachNodeOnce(tree, BST_searchBreadthFirst(tree, ReadLimit(tree)).ret)

RECURSIVE Within(_, _, _)
\* the nodes that paths of at most k edges lead to from the nodes S
Within(g, S, k) ==
  IF k = 0 THEN S
  ELSE Within(g, S \cup UNION {{g.heap[r.id].neighbours[i] : i \in 1..Len(g.heap[r.id].neighbours)} :
                                r \in S}, k - 1)

\* the number of edges of a shortest path from first to node
Distance(g, first, node) ==
  CHOOSE k \in 0..Len(g.heap) :
    /\ node \in Within(g, {first}, k)
    /\ k > 0 => node \notin Within(g, {first}, k - 1)

\* no node of out comes before a node that is strictly closer to first
ByDistance(g, first, out) ==
  \A i, j \in 1..Len(out) : i < j => Distance(g, first, out[i]) <= Distance(g, first, out[j])

AfterPut == IF mapRes.rehashed THEN mapRes.before ELSE map

\* C38: the rehash threshold given to the constructor stays in force: no add
\* or rehash changes it, and after any number of rehashes the add of a new key
\* rehashes exactly when it makes size / capacity exceed that threshold.
C38_ThresholdStaysInForce ==
  /\ map.rehashThreshold = mapRef.rehashThreshold
  /\ (mapRes.op = "add" /\ ~mapRes.hadKey)
       => (mapRes.rehashed
             <=> AfterPut.size * mapRef.rehashThreshold[2]
                   > mapRef.rehashThreshold[1] * Length(AfterPut))

\* a generator that yields nothing and ends without raising
EmptySequence == Yielded(<<>>, "none")

\* C39: on an empty tree, never filled or emptied by removing its last node,
\* traverseInOrderly, traversePreOrderly, traversePostOrderly,
\* searchBreadthFirst and searchDepthFirst each produce an empty sequence
\* without raising, and so never yield the empty sentinel.
C39_EmptyTreeTraversalsAreEmpty ==
  tree.root = Null
    => /\ InOrderly(tree, tree.root, ReadLimit(tree)) = EmptySequence
       /\ BST_traversePreOrderly(tree, tree.root, ReadLimit(tree)) = EmptySequence
       /\ BST_traversePostOrderly(tree, tree.root, ReadLimit(tree)) = EmptySequence
       /\ BST_searchBreadthFirst(tree, ReadLimit(tree)) = EmptySequence
       /\ BST_searchDepthFirst(tree, ReadLimit(tree)) = EmptySequence

\* C40: pop on an empty Stack and dequeue on an empty Queue return null
\* without raising and leave the size at 0, and the container is then as a
\* fresh one, so that later calls behave as on a fresh container; peek on an
\* empty Stack raises OutOfBounds.
C40_EmptyFacades ==
  [][/\ (stackVars' # stackVars /\ stackRes'.op = "pop" /\ Stack_depth(stack) = 0)
          => /\ stackRes'.ret = Null /\ stackRes'.err = "none"
             /\ Stack_depth(stack') = 0
             /\ stack' = Stack_new
     /\ (queueVars' # queueVars /\ queueRes'.op = "dequeue" /\ Queue_length(queue) = 0)
          => /\ queueRes'.ret = Null /\ queueRes'.err = "none"
             /\ Queue_length(queue') = 0
             /\ queue' = Queue_new
     /\ (stackVars' # stackVars /\ stackRes'.op = "peek" /\ Stack_depth(stack) = 0)
          => /\ stackRes'.err = "OutOfBoundsError"
             /\ stack' = stack]_vars

\* a pop has returned null from an empty stack and a dequeue has returned
\* null from an empty queue: the items are numbers, so null is no item
C40_Witness ==
  /\ stackRes.op = "pop" /\ stackRes.ret = Null /\ stackRes.err = "none"
  /\ stack = Stack_new
  /\ queueRes.op = "dequeue" /\ queueRes.ret = Null /\ queueRes.err = "none"
  /\ queue = Queue_new

(* ---------------------------- specifications --------------------------- *)

\* new List() and new HashMap()
Init ==
  /\ ListInit /\ MapInit({DefaultCapacity}, {DefaultRehashThreshold}) /\ TreeInit
  /\ GraphInit({TRUE}) /\ MoreInit

SpecList == Init /\ [][ListNext]_vars

\* the list with its reads
SpecListRead == Init /\ [][ListReadNext]_vars

\* new Stack(), then any push, pop and peek
SpecStack == Init /\ [][StackNext]_vars

\* new Stack() and new Queue(), then any call of either
SpecFacades == Init /\ [][FacadeNext]_vars

\* new Queue(), then any enqueue and dequeue
SpecQueue == Init /\ [][QueueNext]_vars

\* new HashMap(capacity), then any add and delete
InitMap ==
  /\ ListInit /\ MapInit(MapCapacities, {DefaultRehashThreshold}) /\ TreeInit
  /\ GraphInit({TRUE}) /\ MoreInit

SpecMap == InitMap /\ [][MapNext]_vars

\* new HashMap(capacity), then only adds
SpecMapAdd == InitMap /\ [][MapAdd]_vars

\* new HashMap(capacity), then only adds, of numbers and of their strings
SpecMapMixed == InitMap /\ [][MapAddMixed]_vars

\* new HashMap(capacity, rehashThreshold), then only adds of keys that are
\* not in the map yet
InitMapFill ==
  /\ ListInit /\ MapInit(1..MaxCap, Thresholds) /\ TreeInit /\ GraphInit({TRUE})
  /\ MoreInit

SpecMapFill == InitMapFill /\ [][MapAddNew]_vars

\* new BinarySearchTree(), then any add and remove
SpecTree == Init /\ [][TreeNext]_vars

\* new BinarySearchTree(), then any add and remove of the values but the largest
SpecTreeFew == Init /\ [][TreeFewNext]_vars

\* new TreeMap(), then any add and delete
SpecTreeMap == Init /\ [][TmapNext]_vars

\* a collection, then any of the sorts
InitSort ==
  /\ ListInit /\ MapInit({DefaultCapacity}, {DefaultRehashThreshold}) /\ TreeInit
  /\ GraphInit({TRUE}) /\ StackInit /\ QueueInit /\ SortInit(SortInputs) /\ TmapInit
  /\ SearchInit

SpecSort == InitSort /\ [][SortNext]_vars

\* new Graph() or new Graph(false), then any addVertex, removeVertex, addEdge
\* and removeEdge
InitGraph ==
  /\ ListInit /\ MapInit({DefaultCapacity}, {DefaultRehashThreshold}) /\ TreeInit
  /\ GraphInit({TRUE, FALSE}) /\ MoreInit

SpecGraph == InitGraph /\ [][GraphNext]_vars

\* new Graph(), then any addEdge, on more vertices than SpecGraph has
SpecPaths == Init /\ [][PathAddEdge]_vars

\* a graph built by addEdge, and searches of it read to their end: an
\* iteration that can be made is made
SpecSearch ==
  Init /\ [][SearchNext]_vars /\ WF_vars(SearchStep) /\ WF_vars(SearchEnd)

====
